---- MODULE Spec2Model ----
(***************************************************************************)
(* Verification model of the BlockServer command queue                     *)
(* (src/BlockServer/block_server.py), of the configuration delete path and *)
(* of the configuration files (src/BlockServer/fileIO/file_manager.py), and *)
(* of the git client (src/ConfigVersionControl/git_version_control.py),    *)
(* of the file-event handler of the configuration directories              *)
(* (src/BlockServer/fileIO/config_file_event_handler.py) and of the        *)
(* refresh of the gateway and the IOCs by the write commands.              *)
(*                                                                         *)
(* Two threads of BlockServer are modelled: the channel-access (CA) thread *)
(* that runs BlockServer.write, and the worker thread that runs            *)
(* BlockServer.consume_write_queue.  Every call into a collaborator whose  *)
(* failure the source handles (or fails to handle) is a step that either   *)
(* returns or raises.                                                      *)
(***************************************************************************)
EXTENDS Naturals, Sequences, FiniteSets, TLC

\* ------------------------------------------------------------------ bounds
\* Number of write requests the CA thread issues in one behaviour.
MaxWrites == 3

\* Longest list of names in one delete request.
MaxDelNames == 2

\* Number of delete requests in one behaviour.
MaxDeletes == 2

\* Number of operations on the configuration files in one behaviour.
MaxStoreOps == 3

\* Number of push attempts of the push loop in one behaviour.
MaxPushes == 3

\* Number of commit() calls in one behaviour.
MaxCommits == 2

\* ------------------------------------------------------ program constants
\* git_version_control.py:14
PUSH_BASE_INTERVAL == 10

\* git_version_control.py:15
PUSH_RETRY_INTERVAL == 30

\* ------------------------------------------------------------- value sets
ConfigNames == {"X", "Y"}

IocNames == {"ioc1"}

\* The status labels queued with the tasks (block_server.py:191,289,305).
LabelInit == "INITIALISING"

LabelLoadConfig == "LOADING_CONFIG"

LabelLoadComp == "LOADING_COMP"

\* self._active_configserver = None (block_server.py:166)
NoServer == [made |-> FALSE, name |-> "", iocs |-> {}]

\* The state of ActiveConfigServerManager after construction or clear_config().
BlankConfig == [made |-> TRUE, name |-> "", iocs |-> {}]

NoTask == [cmd |-> "none", arg |-> "", comp |-> FALSE, label |-> "", id |-> 0]

NoRequest == [kind |-> "none", arg |-> "", iocs |-> {}]

\* (self.initialise_configserver, (), "INITIALISING")  (block_server.py:191)
InitTask == [cmd |-> "init", arg |-> "", comp |-> FALSE, label |-> LabelInit, id |-> 1]

\* (self.load_config, (value,), "LOADING_CONFIG") / (self.load_config, (value, True), "LOADING_COMP")
LoadTask(name, isComp, n) ==
    [cmd |-> "load", arg |-> name, comp |-> isComp,
     label |-> IF isComp THEN LabelLoadComp ELSE LabelLoadConfig, id |-> n]

DiskKeys == BOOLEAN \X ConfigNames

NoDir == [exists |-> FALSE, iocs |-> {}]

VARIABLES
    \* ---- BlockServer (block_server.py)
    write_queue,    \* self.write_queue: the FIFO of task tuples
    write_lock,     \* self.write_lock: "free" or the thread that holds it
    status,         \* self._status
    active,         \* self._active_configserver and the configuration it holds
    disk,           \* the saved configurations (FALSE, n) and components (TRUE, n)
    lastcfg,        \* the persisted name of the last active configuration
    wpc,            \* position of the worker thread in consume_write_queue
    cur,            \* the task tuple the worker popped and is running
    capc,           \* position of the CA thread in write
    careq,          \* the write request the CA thread is handling / handled last
    reply,          \* the value write stored for that request ("OK", "Error")
    nwrites,        \* number of write requests issued so far
    \* ---- history variables of the BlockServer model
    nextId,         \* number of tasks appended so far (ids are 1..nextId)
    execLog,        \* ids of the tasks the worker started, in start order
    nDone,          \* number of tasks whose cmd(*arg) returned
    raised,         \* ids of the tasks inside which an error was raised
    caBefore,       \* active as it was when the current CA command began
    taskBefore,     \* active as it was when the current task began
    enqDuring,      \* id of the task that was running when the enqueue was issued, 0 if none
    \* ---- configuration delete (file_manager.py and its caller)
    catalog,        \* names of the catalogued configurations / components
    dirs,           \* directories present under the two roots
    activeName,     \* name of the active configuration
    dpc,            \* position inside the delete request
    dreq,           \* the delete request: names, are_comps
    dres,           \* outcome of the last delete request
    didx,           \* loop index of the for-loops
    vcCalls,        \* version-control calls issued by the current delete request
    dBefore,        \* catalog and dirs when the delete request began
    vcUp,           \* whether start_version_control returned a client for this request
    ndeletes,       \* number of delete requests issued so far
    \* ---- configuration files (file_manager.py save_config / load_config)
    files,          \* the directory of every configuration name and its five files
    config,         \* the configuration in memory (saved from, loaded into)
    trail,          \* the last operations on the files, oldest first
    lastSaved,      \* per name: the configuration handed to the last save_config
    svc,            \* the last operation: version control as it saw it, and its outcome
    nstore,         \* number of operations issued so far
    \* ---- GitVersionControl (git_version_control.py)
    branch,         \* str(self.repo.active_branch), a sequence of characters
    host,           \* socket.gethostname(), a sequence of characters
    lockfile,       \* whether <git_dir>/index.lock exists
    spc,            \* position of the caller inside setup()
    serr,           \* the error setup() raised to its caller, "" if none
    npull,          \* number of remote.pull() calls made
    push_required,  \* self._push_required
    push_lock,      \* self._push_lock: "free" or the thread that holds it
    push_interval,  \* local push_interval of _push
    first_failure,  \* local first_failure of _push
    ppc,            \* position of the push thread inside _push ("off": not started)
    cpc,            \* position of the thread that called commit()
    cres,           \* outcome of the last commit() call
    \* ---- history variables of the GitVersionControl model
    lastPush,       \* outcome of the last push attempt
    failRun,        \* number of consecutive failed pushes since the last success
    runLogs,        \* log lines emitted in the current run of failures
    nlogs,          \* log lines emitted by _push in all
    nruns,          \* runs of consecutive failures begun so far
    npush,          \* number of remote.push() calls made
    lockres,        \* what _unlock did ("none": not called)
    unpushed,       \* commits recorded that no successful push has included
    late,           \* commits recorded since the push in progress was called
    ncommit,        \* number of commit() calls made
    \* ---- GitVersionControl.add / remove (git_version_control.py)
    fsys,           \* the paths that exist in the working directory
    index,          \* the paths the git index tracks
    ixcall,         \* the last add / remove call: its operation and its path
    ixops,          \* the repo.index operations that call performed, in order
    ixres,          \* how that call ended: "ok" or "raised"
    nix,            \* number of add / remove calls made
    \* ---- ConfigFileEventHandler (config_file_event_handler.py) and its watch
    is_comp,        \* self._is_comp
    wdisk,          \* per name: version and validity of the directory on disk
    wcat,           \* self._manager: per name, the version the catalogue holds
    schema_lock,    \* self._schema_lock: "free" or the thread that holds it
    fq,             \* file events observed and not yet delivered
    fpc,            \* position of the delivery thread inside the handler
    fev,            \* the event being handled / handled last
    fic,            \* local ic of _check_valid (0: None)
    fres,           \* how the last event ended
    floaded,        \* names passed to load_config for the current event
    flogged,        \* log lines printed by _check_valid so far
    paused,         \* whether the watch is paused
    svpc,           \* position of the thread that saves programmatically
    swritten,       \* files written by the save in progress
    nedit,          \* out-of-band writes made so far
    nsave,          \* programmatic saves completed so far
    \* ---- BlockServer.write / load_config and the collaborators they refresh
    acs,            \* the active configuration: its blocks, components and IOCs
    running,        \* the IOCs the process supervisor is running
    aliases,        \* the block names of the gateway's alias table
    hop,            \* the last command: its kind, argument, calls made, outcome
    nhook,          \* number of commands handled so far
    \* ---- save_config step by step (file_manager.py:74-135)
    scpc,           \* position of the caller inside save_config
    sctest,         \* argument test_mode
    scname,         \* argument config_name
    scstart,        \* what start_version_control met ("none": not called)
    sclog,          \* file writes and version-control calls of this save, in order
    sccommits,      \* commits recorded by all saves so far
    nsc,            \* number of save_config calls made so far
    \* ---- ConfigurationMonitor (RemoteIocServer/config_monitor.py)
    rmpc,           \* position of the thread that constructs / re-points the monitor
    rmprefix,       \* self._remote_pv_prefix
    rmmon,          \* self._monitor: 0 for None, else the number of the object
    rmlive,         \* the monitor objects whose subscription is active
    rmcb,           \* whether self.restart_iocs_callback_func has been assigned
    rupc,           \* position of the callback thread inside _config_updated
    rulog,          \* files written and callback invoked by the current update, in order
    rures,          \* how each update handled so far ended, oldest first
    nset,           \* number of set_remote_pv_prefix calls made so far
    nupd            \* number of updates delivered so far

bsVars == <<write_queue, write_lock, status, active, disk, lastcfg, wpc, cur, capc,
            careq, reply, nwrites, nextId, execLog, nDone, raised, caBefore,
            taskBefore, enqDuring>>

delVars == <<catalog, dirs, activeName, dpc, dreq, dres, didx, vcCalls, dBefore, vcUp, ndeletes>>

stVars == <<files, config, trail, lastSaved, svc, nstore>>

gitVars == <<branch, host, lockfile, spc, serr, npull, push_required, push_lock,
             push_interval, first_failure, ppc, cpc, cres, lastPush, failRun, runLogs,
             nlogs, nruns, npush, ncommit, lockres, unpushed, late>>

ixVars == <<fsys, index, ixcall, ixops, ixres, nix>>

fwVars == <<is_comp, wdisk, wcat, schema_lock, fq, fpc, fev, fic, fres, floaded, flogged,
            paused, svpc, swritten, nedit, nsave>>

hkVars == <<acs, running, aliases, hop, nhook>>

scVars == <<scpc, sctest, scname, scstart, sclog, sccommits, nsc>>

rmVars == <<rmpc, rmprefix, rmmon, rmlive, rmcb, rupc, rulog, rures, nset, nupd>>

restVars == <<ixVars, fwVars, hkVars, scVars, rmVars>>

vars == <<bsVars, delVars, stVars, gitVars, restVars>>

\* What the steps of one part of the program leave alone: the other parts.
notBs == <<delVars, stVars, gitVars, restVars>>

notDel == <<bsVars, stVars, gitVars, restVars>>

notSt == <<bsVars, delVars, gitVars, restVars>>

notGit == <<bsVars, delVars, stVars, restVars>>

notIdx == <<bsVars, delVars, stVars, gitVars, fwVars, hkVars, scVars, rmVars>>

notWatch == <<bsVars, delVars, stVars, gitVars, ixVars, hkVars, scVars, rmVars>>

notHook == <<bsVars, delVars, stVars, gitVars, ixVars, fwVars, scVars, rmVars>>

notSave == <<bsVars, delVars, stVars, gitVars, ixVars, fwVars, hkVars, rmVars>>

notRemote == <<bsVars, delVars, stVars, gitVars, ixVars, fwVars, hkVars, scVars>>

\* ------------------------------------------------------------ initial state
\* BlockServer.__init__ (block_server.py:163-191) has returned: the status is
\* "INITIALISING", the worker thread is started and the initialise task is queued.
BsInit ==
    /\ write_queue = <<InitTask>>
    /\ write_lock = "free"
    /\ status = LabelInit
    /\ active = NoServer
    /\ disk = [k \in DiskKeys |->
                 IF k[2] = "X" THEN [exists |-> TRUE, iocs |-> IF k[1] THEN {} ELSE {"ioc1"}]
                 ELSE NoDir]
    /\ lastcfg \in ConfigNames \cup {""}
    /\ wpc = "test"
    /\ cur = NoTask
    /\ capc = "idle"
    /\ careq = NoRequest
    /\ reply = "none"
    /\ nwrites = 0
    /\ nextId = 1
    /\ execLog = <<>>
    /\ nDone = 0
    /\ raised = {}
    /\ caBefore = NoServer
    /\ taskBefore = NoServer
    /\ enqDuring = 0

\* The delete path at rest (nothing catalogued, no request issued).
DelIdle ==
    /\ catalog = [c \in BOOLEAN |-> {}]
    /\ dirs = [c \in BOOLEAN |-> {}]
    /\ activeName = ""
    /\ dpc = "idle"
    /\ dreq = [names |-> <<>>, comps |-> FALSE]
    /\ dres = "none"
    /\ didx = 1
    /\ vcCalls = <<>>
    /\ dBefore = [catalog |-> [c \in BOOLEAN |-> {}], dirs |-> [c \in BOOLEAN |-> {}]]
    /\ vcUp = FALSE
    /\ ndeletes = 0

\* ---------------------------------------------------- configuration files
BlockNames == {"b1"}

\* GRP_NONE (config/constants.py:2)
GRP_NONE == "NONE"

GroupNames == {GRP_NONE, "G1"}

\* No configuration object yet.
NoConfiguration ==
    [made |-> FALSE, blocks |-> {}, groups |-> <<>>, iocs |-> {}, subconfigs |-> {},
     meta |-> [name |-> ""]]

\* The Group objects of a configuration: group name -> the block names it lists.
GroupMaps == UNION {[D -> SUBSET BlockNames] : D \in SUBSET GroupNames}

\* The configurations the program holds: the NONE group exists and a group
\* lists only blocks of the configuration (the two invariants of Configuration).
Configurations ==
    {c \in [made : {TRUE}, blocks : SUBSET BlockNames, groups : GroupMaps,
            iocs : SUBSET IocNames, subconfigs : {{}}, meta : [name : ConfigNames]] :
        /\ GRP_NONE \in DOMAIN c.groups
        /\ \A g \in DOMAIN c.groups : c.groups[g] \subseteq c.blocks}

\* The configuration  clear_config() leaves: only the NONE group, nothing else.
BlankConfiguration ==
    [made |-> TRUE, blocks |-> {}, groups |-> [g \in {GRP_NONE} |-> {}], iocs |-> {},
     subconfigs |-> {}, meta |-> [name |-> ""]]

\* One of the five files: absent, or holding a document.
NoFile(empty) == [present |-> FALSE, doc |-> empty]

File(d) == [present |-> TRUE, doc |-> d]

NoDirectory ==
    [exists |-> FALSE, blocks |-> NoFile({}), groups |-> NoFile({}), iocs |-> NoFile({}),
     subconfigs |-> NoFile({}), meta |-> NoFile([name |-> ""])]

\* ConfigurationXmlConverter.groups_to_xml: one element per group, carrying the
\* group's name and its block names.
GroupsToXml(groups) == {<<g, groups[g]>> : g \in DOMAIN groups}

\* ConfigurationXmlConverter.groups_from_xml(root, groups, blocks): every element
\* of the document sets the entry of its name in the container it is handed.
GroupsFromXml(doc, groups) ==
    [g \in DOMAIN groups \cup {e[1] : e \in doc} |->
        IF \E e \in doc : e[1] = g THEN (CHOOSE e \in doc : e[1] = g)[2] ELSE groups[g]]

\* Directories as an edit outside the program can have left them: any subset of
\* the five files, the groups file with or without a NONE element.
OutOfBandDirs ==
    [exists : {TRUE},
     blocks : {NoFile({}), File({"b1"})},
     groups : {NoFile({}), File({<<"G1", {"b1"}>>}), File({<<GRP_NONE, {"b1"}>>, <<"G1", {}>>})},
     iocs : {NoFile({}), File({"ioc1"})},
     subconfigs : {NoFile({}), File({})},
     meta : {NoFile([name |-> ""]), File([name |-> "Y"])}]

\* The configuration files at rest.
StoreIdle ==
    /\ files = [n \in ConfigNames |-> NoDirectory]
    /\ config = NoConfiguration
    /\ trail = <<>>
    /\ lastSaved = [n \in ConfigNames |-> NoConfiguration]
    /\ svc = [start |-> "none", calls |-> <<>>, ok |-> TRUE]
    /\ nstore = 0

\* ------------------------------------------------------ GitVersionControl
\* GitVersionControl.__init__ (git_version_control.py:30-36) has returned for a
\* repository on branch b of host h; setup() has not been called yet.
GitNew(b, h, l) ==
    /\ branch = b
    /\ host = h
    /\ lockfile = l
    /\ spc = "new"
    /\ serr = ""
    /\ npull = 0
    /\ push_required = FALSE
    /\ push_lock = "free"
    /\ push_interval = PUSH_BASE_INTERVAL
    /\ first_failure = TRUE
    /\ ppc = "off"
    /\ cpc = "idle"
    /\ cres = "none"
    /\ lastPush = "none"
    /\ failRun = 0
    /\ runLogs = 0
    /\ nlogs = 0
    /\ nruns = 0
    /\ npush = 0
    /\ ncommit = 0
    /\ lockres = "none"
    /\ unpushed = 0
    /\ late = 0

GitIdle == GitNew(<<>>, <<>>, FALSE)

\* No add / remove call made on an empty working directory.
IdxIdle ==
    /\ fsys = {}
    /\ index = {}
    /\ ixcall = [op |-> "none", path |-> <<>>]
    /\ ixops = <<>>
    /\ ixres = "none"
    /\ nix = 0

\* A file event, with the path segments below the watched root it was built from.
NoEvent == [path |-> <<>>, segs |-> <<>>, origin |-> "none"]

\* ConfigFileEventHandler.__init__ (config_file_event_handler.py:33-48) has
\* returned for the watch w (TRUE: components) over directories d catalogued as c.
WatchNew(w, d, c) ==
    /\ is_comp = w
    /\ wdisk = d
    /\ wcat = c
    /\ schema_lock = "free"
    /\ fq = <<>>
    /\ fpc = "idle"
    /\ fev = NoEvent
    /\ fic = 0
    /\ fres = "none"
    /\ floaded = <<>>
    /\ flogged = 0
    /\ paused = FALSE
    /\ svpc = "idle"
    /\ swritten = 0
    /\ nedit = 0
    /\ nsave = 0

WatchIdle == WatchNew(FALSE, <<>>, <<>>)

NoCommand == [kind |-> "none", arg |-> {}, calls |-> <<>>, ok |-> TRUE, loaded |-> FALSE]

\* The active configuration after clear_config(), nothing running, no alias.
HookIdle ==
    /\ acs = [blocks |-> {}, comps |-> {}, iocs |-> {}]
    /\ running = {}
    /\ aliases = {}
    /\ hop = NoCommand
    /\ nhook = 0

\* No save_config call made yet.
SaveIdle ==
    /\ scpc = "idle"
    /\ sctest = FALSE
    /\ scname = ""
    /\ scstart = "none"
    /\ sclog = <<>>
    /\ sccommits = 0
    /\ nsc = 0

\* ConfigurationMonitor not constructed yet.
RemoteIdle ==
    /\ rmpc = "new"
    /\ rmprefix = ""
    /\ rmmon = 0
    /\ rmlive = {}
    /\ rmcb = FALSE
    /\ rupc = "idle"
    /\ rulog = <<>>
    /\ rures = <<>>
    /\ nset = 0
    /\ nupd = 0

\* The later parts of the program that have no initial choice of their own.
LaterIdle == SaveIdle /\ RemoteIdle

\* The parts of the program added after the first four, at rest.
RestIdle == IdxIdle /\ WatchIdle /\ HookIdle /\ LaterIdle

Init == BsInit /\ DelIdle /\ StoreIdle /\ GitIdle /\ RestIdle

\* ------------------------------------------------- worker: consume_write_queue
Executing == cur.cmd # "none"

\* while len(self.write_queue) > 0: with self.write_lock:
\*     cmd, arg, state = self.write_queue.pop(i); self._status = state
TakeAt(i) ==
    /\ wpc = "test"
    /\ Len(write_queue) > 0
    /\ write_lock = "free"
    /\ write_lock' = "worker"
    /\ cur' = write_queue[i]
    /\ write_queue' = SubSeq(write_queue, 1, i - 1) \o SubSeq(write_queue, i + 1, Len(write_queue))
    /\ status' = write_queue[i].label
    /\ execLog' = Append(execLog, write_queue[i].id)
    /\ taskBefore' = IF write_queue[i].cmd = "load" THEN active ELSE NoServer
    /\ wpc' = IF write_queue[i].cmd = "init" THEN "ctor" ELSE "load"
    /\ UNCHANGED <<active, disk, lastcfg, capc, careq, reply, nwrites, nextId, nDone,
                   raised, caBefore, enqDuring>>
    /\ UNCHANGED notBs

\* The worker taking the newest task, write_queue.pop(), instead of the oldest.
ConsumeTakeLast == TakeAt(Len(write_queue))

ConsumeTake == TakeAt(1)

\* An exception leaves cmd(*arg) uncaught: the with-statement releases the lock,
\* consume_write_queue has no handler, the thread ends.  _status is not reset.
Die ==
    /\ wpc' = "dead"
    /\ write_lock' = "free"
    /\ raised' = raised \cup {cur.id}
    /\ cur' = NoTask
    /\ UNCHANGED <<write_queue, status, disk, lastcfg, capc, careq, reply, nwrites,
                   nextId, execLog, nDone, caBefore, enqDuring>>
    /\ taskBefore' = NoServer
    /\ UNCHANGED notBs

\* caBefore is the configuration the open CA command would have left untouched:
\* what the worker writes to active in the meantime is not that command's doing.
WorkerFrame ==
    /\ UNCHANGED <<write_queue, write_lock, status, disk, lastcfg, cur, capc, careq,
                   reply, nwrites, nextId, execLog, nDone, taskBefore, enqDuring>>
    /\ caBefore' = IF capc \in {"post", "save"} /\ active' # active THEN active' ELSE caBefore
    /\ UNCHANGED notBs

\* initialise_configserver, line 195-196: the constructor call, outside the try.
InitialiseCtor ==
    /\ wpc = "ctor"
    /\ \/ /\ active' = BlankConfig
          /\ wpc' = "load_last"
          /\ raised' = raised
          /\ WorkerFrame
       \/ /\ active' = active
          /\ Die

\* The configuration ActiveConfigServerManager.load_config reads from the directory.
Loaded(isComp, name) ==
    [made |-> TRUE, name |-> name, iocs |-> disk[<<isComp, name>>].iocs]

\* load_last_config, lines 444-449, inside the try of initialise_configserver:
\* no last configuration -> clear_config(); a last configuration that loads
\* becomes the active one; anything else raises into the handler at line 204.
LoadLastConfig ==
    /\ wpc = "load_last"
    /\ \/ /\ lastcfg = ""
          /\ active' = BlankConfig
          /\ wpc' = "init_cfg"
          /\ raised' = raised
       \/ /\ lastcfg # ""
          /\ disk[<<FALSE, lastcfg>>].exists
          /\ active' = Loaded(FALSE, lastcfg)
          /\ wpc' = "init_cfg"
          /\ raised' = raised
       \/ /\ lastcfg # ""
          /\ ~disk[<<FALSE, lastcfg>>].exists
          /\ active' = active
          /\ wpc' = "handler"
          /\ raised' = raised \cup {cur.id}
    /\ WorkerFrame

\* _initialise_config, lines 452-463 (stop/start IOCs, gateway aliases, monitors,
\* archiver), called from load_last_config (line 450) and from load_config
\* (lines 475-476, followed by update_get_details_monitors).  In both callers a
\* raise is caught: by line 204 for the initialise task, by line 477 for a load.
InitialiseConfig ==
    /\ wpc = "init_cfg"
    /\ \/ /\ wpc' = IF cur.cmd = "init" THEN "monitors" ELSE "finish"
          /\ raised' = raised
       \/ /\ wpc' = IF cur.cmd = "init" THEN "handler" ELSE "finish"
          /\ raised' = raised \cup {cur.id}
    /\ active' = active
    /\ WorkerFrame

\* initialise_configserver, lines 204-206: the handler calls clear_config(),
\* itself outside any try.
InitialiseHandler ==
    /\ wpc = "handler"
    /\ \/ /\ active' = BlankConfig
          /\ wpc' = "monitors"
          /\ raised' = raised
          /\ WorkerFrame
       \/ /\ active' = active
          /\ Die

\* initialise_configserver, lines 209-210: update_blocks_monitors and
\* update_config_monitors, outside any try.
InitialiseMonitors ==
    /\ wpc = "monitors"
    /\ active' = active
    /\ \/ /\ wpc' = "finish"
          /\ raised' = raised
          /\ WorkerFrame
       \/ Die

\* load_config, lines 465-473: self._active_configserver.load_config(config[, True])
\* replaces the active configuration or raises; line 477 catches everything.
LoadConfig ==
    /\ wpc = "load"
    /\ \/ /\ active.made
          /\ disk[<<cur.comp, cur.arg>>].exists
          /\ active' = Loaded(cur.comp, cur.arg)
          /\ wpc' = "init_cfg"
          /\ raised' = raised
       \/ /\ ~(active.made /\ disk[<<cur.comp, cur.arg>>].exists)
          /\ active' = active
          /\ wpc' = "finish"
          /\ raised' = raised \cup {cur.id}
    /\ WorkerFrame

\* consume_write_queue, line 579, and the end of the with-block.
ConsumeFinish ==
    /\ wpc = "finish"
    /\ status' = ""
    /\ write_lock' = "free"
    /\ cur' = NoTask
    /\ nDone' = nDone + 1
    /\ wpc' = "test"
    /\ taskBefore' = NoServer
    /\ UNCHANGED <<write_queue, active, disk, lastcfg, capc, careq, reply, nwrites,
                   nextId, execLog, raised, caBefore, enqDuring>>
    /\ UNCHANGED notBs

\* ------------------------------------------------------- CA thread: write
LoadKinds == {"LOAD_CONFIG", "LOAD_COMP"}

CaFrame ==
    /\ UNCHANGED <<write_lock, status, lastcfg, wpc, cur, execLog, nDone, raised>>
    /\ UNCHANGED notBs

\* write(reason, value) is entered with reason LOAD_CONFIG or LOAD_COMP
\* (lines 286-288, 302-304): the thread reaches "with self.write_lock".
WriteLoadIssue ==
    /\ capc = "idle"
    /\ nwrites < MaxWrites
    /\ \E k \in LoadKinds, n \in ConfigNames :
          careq' = [kind |-> k, arg |-> n, iocs |-> {}]
    /\ capc' = "enq"
    /\ reply' = "none"
    /\ nwrites' = nwrites + 1
    /\ enqDuring' = IF Executing THEN cur.id ELSE 0
    /\ UNCHANGED <<write_queue, active, disk, nextId, caBefore, taskBefore>>
    /\ CaFrame

\* with self.write_lock: self.write_queue.append(...)   (lines 288-290, 304-305).
\* The RLock is free only while the worker is outside its with-block.
WriteLoadEnqueue ==
    /\ capc = "enq"
    /\ write_lock = "free"
    /\ write_queue' = Append(write_queue, LoadTask(careq.arg, careq.kind = "LOAD_COMP", nextId + 1))
    /\ nextId' = nextId + 1
    /\ IF careq.kind = "LOAD_CONFIG"
         THEN reply' = "OK" /\ capc' = "idle"
         ELSE reply' = reply /\ capc' = "mon"
    /\ enqDuring' = 0
    /\ UNCHANGED <<active, disk, careq, nwrites, caBefore, taskBefore>>
    /\ CaFrame

\* LOAD_COMP, lines 306-310: update_blocks_monitors() on the CA thread reads
\* self._active_configserver (line 526), which is None until the worker has run
\* line 195; the AttributeError is caught at line 308 and the value is "Error: ...".
WriteLoadCompMonitors ==
    /\ capc = "mon"
    /\ reply' = IF active.made THEN "OK" ELSE "Error"
    /\ capc' = "idle"
    /\ UNCHANGED <<write_queue, active, disk, careq, nwrites, nextId, caBefore, taskBefore,
                   enqDuring>>
    /\ CaFrame

\* SAVE_CONFIG, lines 294-297: write calls save_active_config on the CA thread.
WriteSaveIssue ==
    /\ capc = "idle"
    /\ nwrites < MaxWrites
    /\ \E n \in ConfigNames : careq' = [kind |-> "SAVE_CONFIG", arg |-> n, iocs |-> {}]
    /\ capc' = "save"
    /\ reply' = "none"
    /\ nwrites' = nwrites + 1
    /\ caBefore' = active
    /\ UNCHANGED <<write_queue, active, disk, nextId, taskBefore, enqDuring>>
    /\ CaFrame

\* The directory save_config(name) writes for the active configuration.
Saved(name) == [disk EXCEPT ![<<FALSE, name>>] = [exists |-> TRUE, iocs |-> active.iocs]]

\* save_active_config, lines 507-512, and the reply of lines 298-301.
WriteSave ==
    /\ capc = "save"
    /\ \/ /\ active.made
          /\ disk' = Saved(careq.arg)
          /\ reply' = "OK"
       \/ /\ disk' = disk
          /\ reply' = "Error"
    /\ capc' = "idle"
    /\ caBefore' = NoServer
    /\ UNCHANGED <<write_queue, active, careq, nwrites, nextId, taskBefore, enqDuring>>
    /\ CaFrame

\* taskBefore is the configuration the running load would have left untouched:
\* a command of the CA thread that changes active meanwhile changes it too.
\* The first call of a command that write runs on the CA thread:
\* add_iocs (374), remove_iocs (385), set_config_details (411), clear_config (321).
Mutated(cfg, req) ==
    CASE req.kind = "ADD_IOCS" -> [cfg EXCEPT !.iocs = @ \cup {req.arg}]
      [] req.kind = "REMOVE_IOCS" -> [cfg EXCEPT !.iocs = @ \ {req.arg}]
      [] req.kind = "SET_CURR_CONFIG_DETAILS" -> [made |-> TRUE, name |-> req.arg, iocs |-> req.iocs]
      [] OTHER -> BlankConfig

Requests ==
    {[kind |-> k, arg |-> i, iocs |-> {}] : k \in {"ADD_IOCS", "REMOVE_IOCS"}, i \in IocNames}
    \cup {[kind |-> "SET_CURR_CONFIG_DETAILS", arg |-> n, iocs |-> s] :
            n \in ConfigNames, s \in SUBSET IocNames}
    \cup {[kind |-> "CLEAR_CONFIG", arg |-> "", iocs |-> {}]}

\* write(reason, value) with one of the reasons above: the first call either
\* changes the active configuration or raises (also when _active_configserver is
\* still None); a raise goes to the except clause, which only builds the reply.
WriteMutate ==
    /\ capc = "idle"
    /\ nwrites < MaxWrites
    /\ \E req \in Requests :
          /\ careq' = req
          /\ \/ /\ active.made
                /\ active' = Mutated(active, req)
                /\ capc' = "post"
                /\ reply' = "none"
                /\ caBefore' = active
                /\ taskBefore' = IF cur.cmd = "load" THEN Mutated(taskBefore, req)
                                  ELSE taskBefore
             \/ /\ active' = active
                /\ capc' = "idle"
                /\ reply' = "Error"
                /\ caBefore' = NoServer
                /\ taskBefore' = taskBefore
    /\ nwrites' = nwrites + 1
    /\ UNCHANGED <<write_queue, disk, nextId, enqDuring>>
    /\ CaFrame

\* The calls that follow the first one inside the same try:
\* autosave_active_config (375, 386), save_active_config of the current name
\* (412), _initialise_config (322).  The except clause restores nothing.
WritePost ==
    /\ capc = "post"
    /\ \/ /\ careq.kind = "SET_CURR_CONFIG_DETAILS" => active.name \in ConfigNames
          /\ disk' = IF careq.kind = "SET_CURR_CONFIG_DETAILS" THEN Saved(active.name) ELSE disk
          /\ reply' = "OK"
       \/ /\ disk' = disk
          /\ reply' = "Error"
    /\ capc' = "idle"
    /\ caBefore' = NoServer
    /\ UNCHANGED <<write_queue, active, careq, nwrites, nextId, taskBefore, enqDuring>>
    /\ CaFrame

\* --------------------------------------------------------- specification
BsNext ==
    \/ ConsumeTake
    \/ InitialiseCtor
    \/ LoadLastConfig
    \/ InitialiseConfig
    \/ InitialiseHandler
    \/ InitialiseMonitors
    \/ LoadConfig
    \/ ConsumeFinish
    \/ WriteLoadIssue
    \/ WriteLoadEnqueue
    \/ WriteLoadCompMonitors
    \/ WriteSaveIssue
    \/ WriteSave
    \/ WriteMutate
    \/ WritePost

Spec == Init /\ [][BsNext]_vars

\* ------------------------------------------------------ CA thread: read
\* The reasons whose branch of read dereferences self._active_configserver.
ActiveReasons ==
    {"BLOCKNAMES", "GROUPS", "CONFIG", "CONFIG_IOCS", "CONFIG_COMPS", "GET_RC_OUT",
     "GET_RC_PARS", "GET_CURR_CONFIG_DETAILS"}

ReadReasons == ActiveReasons \cup {"CONFIGS", "COMPS", "SERVER_STATUS"}

\* read(reason), block_server.py:212-238, called in the state as it is: it takes
\* no lock and changes nothing.  A branch for the active configuration computes
\* its value from self._active_configserver, which is None until the initialise
\* task has constructed it: the attribute access on None raises.
Read(reason) ==
    IF reason \in ActiveReasons
      THEN IF active.made
             THEN [ok |-> TRUE,
                   value |-> CASE reason = "CONFIG" -> active.name
                               [] reason = "CONFIG_IOCS" -> active.iocs
                               [] OTHER -> ""]
             ELSE [ok |-> FALSE, value |-> "AttributeError"]
      ELSE IF reason = "SERVER_STATUS"
             THEN [ok |-> TRUE, value |-> status]
             ELSE [ok |-> TRUE,
                   value |-> {k[2] : k \in {j \in DiskKeys :
                                              j[1] = (reason = "COMPS") /\ disk[j].exists}}]

\* ------------------------------------------------- configuration delete
DelNames == {"A", "B", "C"}

Range(q) == {q[i] : i \in 1..Len(q)}

\* Non-empty lists of distinct names, at most n long.
NameLists(S, n) ==
    {q \in UNION {[1..k -> S] : k \in 1..n} : Cardinality(Range(q)) = Len(q)}

\* The catalogue holds the active configuration; a directory may have been
\* removed out of band, so dirs is any subset of what is catalogued.
DelInit ==
    /\ BsInit
    /\ StoreIdle
    /\ GitIdle
    /\ RestIdle
    /\ lastcfg = ""
    /\ activeName \in {"A", "B"}
    /\ catalog \in {c \in [BOOLEAN -> SUBSET DelNames] :
                      activeName \in c[FALSE] /\ c[TRUE] \in {{}, {"A", "C"}}}
    /\ dirs \in {d \in [BOOLEAN -> SUBSET DelNames] :
                   d[FALSE] \subseteq catalog[FALSE] /\ d[TRUE] \subseteq catalog[TRUE]}
    /\ dpc = "idle"
    /\ dreq = [names |-> <<>>, comps |-> FALSE]
    /\ dres = "none"
    /\ didx = 1
    /\ vcCalls = <<>>
    /\ dBefore = [catalog |-> catalog, dirs |-> dirs]
    /\ vcUp = FALSE
    /\ ndeletes = 0

\* The catalogue's delete(names, are_comps): a non-component request that names
\* the active configuration fails with InUseError before anything is touched;
\* otherwise the entries leave the catalogue and the directories and the
\* version-control entries are removed through ConfigurationFileManager.
\* (DeleteRequestUnchecked is the same request without the in-use check.)
DeleteRequestUnchecked ==
    /\ dpc = "idle"
    /\ ndeletes < MaxDeletes
    /\ ndeletes' = ndeletes + 1
    /\ \E c \in BOOLEAN : \E q \in NameLists(catalog[c], MaxDelNames) :
          /\ dreq' = [names |-> q, comps |-> c]
          /\ catalog' = [catalog EXCEPT ![c] = @ \ Range(q)]
          /\ dpc' = "fs"
    /\ dres' = "pending"
    /\ dBefore' = [catalog |-> catalog, dirs |-> dirs]
    /\ didx' = 1
    /\ vcCalls' = <<>>
    /\ vcUp' = FALSE
    /\ UNCHANGED <<dirs, activeName>>
    /\ UNCHANGED notDel

DeleteRequest ==
    /\ dpc = "idle"
    /\ ndeletes < MaxDeletes
    /\ ndeletes' = ndeletes + 1
    /\ \E c \in BOOLEAN : \E q \in NameLists(catalog[c], MaxDelNames) :
          /\ dreq' = [names |-> q, comps |-> c]
          /\ IF ~c /\ activeName \in Range(q)
               THEN /\ dres' = "InUseError"
                    /\ dpc' = "idle"
                    /\ catalog' = catalog
               ELSE /\ dres' = "pending"
                    /\ dpc' = "fs"
                    /\ catalog' = [catalog EXCEPT ![c] = @ \ Range(q)]
    /\ dBefore' = [catalog |-> catalog, dirs |-> dirs]
    /\ didx' = 1
    /\ vcCalls' = <<>>
    /\ vcUp' = FALSE
    /\ UNCHANGED <<dirs, activeName>>
    /\ UNCHANGED notDel

\* delete_configs, file_manager.py:164-169, one iteration of the for-loop:
\*     if os.path.isdir(path): shutil.rmtree(path)
DeleteConfigs ==
    /\ dpc = "fs"
    /\ dirs' = [dirs EXCEPT ![dreq.comps] = @ \ {dreq.names[didx]}]
    /\ didx' = IF didx = Len(dreq.names) THEN 1 ELSE didx + 1
    /\ dpc' = IF didx = Len(dreq.names) THEN "vc_start" ELSE "fs"
    /\ UNCHANGED <<catalog, activeName, dreq, dres, vcCalls, dBefore, vcUp, ndeletes>>
    /\ UNCHANGED notDel

\* start_version_control, file_manager.py:116-126, called at line 140: the
\* client, or None when ConfigVersionControl(root_path) raised; and the test
\* "if vc is not None" of line 141.
StartVersionControl ==
    /\ dpc = "vc_start"
    /\ \/ /\ vcUp' = TRUE
          /\ dpc' = "vc_remove"
          /\ dres' = dres
       \/ /\ vcUp' = FALSE
          /\ dpc' = "idle"
          /\ dres' = "ok"
    /\ UNCHANGED <<catalog, dirs, activeName, dreq, didx, vcCalls, dBefore, ndeletes>>
    /\ UNCHANGED notDel

\* delete_configs_from_version_control, lines 142-143, one iteration:
\*     vc.remove(root_path + '/' + config)
\* (VcRemoveAndCommit has the commit inside the loop: one commit per remove.)
VcRemoveAndCommit ==
    /\ dpc = "vc_remove"
    /\ vcCalls' = vcCalls \o <<<<"remove", dreq.names[didx]>>, <<"commit", "">>>>
    /\ didx' = IF didx = Len(dreq.names) THEN 1 ELSE didx + 1
    /\ dpc' = IF didx = Len(dreq.names) THEN "vc_commit" ELSE "vc_remove"
    /\ UNCHANGED <<catalog, dirs, activeName, dreq, dres, dBefore, vcUp, ndeletes>>
    /\ UNCHANGED notDel

VcRemove ==
    /\ dpc = "vc_remove"
    /\ vcCalls' = Append(vcCalls, <<"remove", dreq.names[didx]>>)
    /\ didx' = IF didx = Len(dreq.names) THEN 1 ELSE didx + 1
    /\ dpc' = IF didx = Len(dreq.names) THEN "vc_commit" ELSE "vc_remove"
    /\ UNCHANGED <<catalog, dirs, activeName, dreq, dres, dBefore, vcUp, ndeletes>>
    /\ UNCHANGED notDel

\* delete_configs_from_version_control, line 144: vc.commit(commit_message).
VcCommit ==
    /\ dpc = "vc_commit"
    /\ vcCalls' = Append(vcCalls, <<"commit", "">>)
    /\ dpc' = "idle"
    /\ dres' = "ok"
    /\ UNCHANGED <<catalog, dirs, activeName, dreq, didx, dBefore, vcUp, ndeletes>>
    /\ UNCHANGED notDel

DelNext ==
    \/ DeleteRequest
    \/ DeleteConfigs
    \/ StartVersionControl
    \/ VcRemove
    \/ VcCommit

DelSpec == DelInit /\ [][DelNext]_vars

\* ------------------------------------------- configuration files: operations
\* The outcomes of start_version_control (file_manager.py:116-126): a client, or
\* None after NotUnderVersionControl (line 121) or any other Exception (line 123).
VcStarts == {"client", "NotUnderVersionControl", "Exception"}

\* The outcome of an operation that does not reach version control.
NoVc(ok) == [start |-> "none", calls |-> <<>>, ok |-> ok]

\* trail remembers the last three operations.
Push(t, e) == IF Len(t) < 3 THEN Append(t, e) ELSE Append(Tail(t), e)

StoreInit ==
    /\ BsInit
    /\ lastcfg = ""
    /\ DelIdle
    /\ GitIdle
    /\ RestIdle
    /\ files \in {f \in [ConfigNames -> OutOfBandDirs \cup {NoDirectory}] : f["Y"] = NoDirectory}
    /\ config \in {NoConfiguration, BlankConfiguration}
    /\ trail = <<>>
    /\ lastSaved = [n \in ConfigNames |-> NoConfiguration]
    /\ svc = NoVc(TRUE)
    /\ nstore = 0

\* One operation on the files ends: it is remembered and counted.
StoreDone(kind, n) ==
    /\ trail' = Push(trail, [kind |-> kind, name |-> n])
    /\ nstore' = nstore + 1
    /\ UNCHANGED notSt

\* save_config, lines 77-111, when every file is rewritten only if its
\* collection has entries (an empty collection leaves the old file in place).
SaveFilesNonEmpty(dir, c) ==
    [exists |-> TRUE,
     blocks |-> IF c.blocks = {} THEN dir.blocks ELSE File(c.blocks),
     groups |-> File(GroupsToXml(c.groups)),
     iocs |-> IF c.iocs = {} THEN dir.iocs ELSE File(c.iocs),
     subconfigs |-> IF c.subconfigs = {} THEN dir.subconfigs ELSE File(c.subconfigs),
     meta |-> File(c.meta)]

\* save_config, lines 77-111: the directory is created when absent and each of
\* the five files is opened with 'w' and written, whatever dir held before.
SaveFiles(dir, c) ==
    [exists |-> TRUE,
     blocks |-> File(c.blocks),
     groups |-> File(GroupsToXml(c.groups)),
     iocs |-> File(c.iocs),
     subconfigs |-> File(c.subconfigs),
     meta |-> File(c.meta)]

\* load_config, lines 26-72, without line 33 (no NONE group created first).
LoadFilesNoSeed(dir, n) ==
    [made |-> TRUE,
     blocks |-> IF dir.blocks.present THEN dir.blocks.doc ELSE {},
     groups |-> IF dir.groups.present THEN GroupsFromXml(dir.groups.doc, <<>>) ELSE <<>>,
     iocs |-> IF dir.iocs.present THEN dir.iocs.doc ELSE {},
     subconfigs |-> IF dir.subconfigs.present THEN dir.subconfigs.doc ELSE {},
     meta |-> IF dir.meta.present THEN dir.meta.doc ELSE [name |-> n]]

\* load_config, lines 26-72, with MetaData('') at line 60 (the name is not seeded).
LoadFilesUnnamed(dir, n) ==
    [made |-> TRUE,
     blocks |-> IF dir.blocks.present THEN dir.blocks.doc ELSE {},
     groups |-> IF dir.groups.present
                  THEN GroupsFromXml(dir.groups.doc, [g \in {GRP_NONE} |-> {}])
                  ELSE [g \in {GRP_NONE} |-> {}],
     iocs |-> IF dir.iocs.present THEN dir.iocs.doc ELSE {},
     subconfigs |-> IF dir.subconfigs.present THEN dir.subconfigs.doc ELSE {},
     meta |-> IF dir.meta.present THEN dir.meta.doc ELSE [name |-> ""]]

\* load_config, lines 26-72, without lines 47-51 (the IOC file is never read).
LoadFilesSkipIocs(dir, n) ==
    [made |-> TRUE,
     blocks |-> IF dir.blocks.present THEN dir.blocks.doc ELSE {},
     groups |-> IF dir.groups.present
                  THEN GroupsFromXml(dir.groups.doc, [g \in {GRP_NONE} |-> {}])
                  ELSE [g \in {GRP_NONE} |-> {}],
     iocs |-> {},
     subconfigs |-> IF dir.subconfigs.present THEN dir.subconfigs.doc ELSE {},
     meta |-> IF dir.meta.present THEN dir.meta.doc ELSE [name |-> n]]

\* load_config, lines 26-72: empty containers, the NONE group (line 33), then
\* each file that exists is parsed into its container; MetaData(config_name) is
\* filled from the metadata file when there is one.
LoadFiles(dir, n) ==
    [made |-> TRUE,
     blocks |-> IF dir.blocks.present THEN dir.blocks.doc ELSE {},
     groups |-> IF dir.groups.present
                  THEN GroupsFromXml(dir.groups.doc, [g \in {GRP_NONE} |-> {}])
                  ELSE [g \in {GRP_NONE} |-> {}],
     iocs |-> IF dir.iocs.present THEN dir.iocs.doc ELSE {},
     subconfigs |-> IF dir.subconfigs.present THEN dir.subconfigs.doc ELSE {},
     meta |-> IF dir.meta.present THEN dir.meta.doc ELSE [name |-> n]]

\* The same without the except clause of line 123: an error of start-up other
\* than NotUnderVersionControl reaches the caller.
VcCallsUncaught(start, full, calls, ok) ==
    IF start = "client"
      THEN \E k \in 0..Len(full) :
              /\ calls = (IF k = 0 THEN full ELSE SubSeq(full, 1, k))
              /\ ok = (k = 0)
      ELSE calls = <<>> /\ ok = (start = "NotUnderVersionControl")

\* add_configs_to_version_control / delete_configs_from_version_control
\* (file_manager.py:128-144) for one name: without a client nothing is called;
\* with a client the calls are issued in order and the first one that raises
\* ends the operation with the error.  ok tells whether the caller got no error.
VcCallsFor(start, full, calls, ok) ==
    IF start = "client"
      THEN \E k \in 0..Len(full) :
              /\ calls = (IF k = 0 THEN full ELSE SubSeq(full, 1, k))
              /\ ok = (k = 0)
      ELSE calls = <<>> /\ ok = TRUE

\* The detail sets a request hands to set_config_details: here the ones with a
\* block, an IOC and no block in the NONE group, under either name.
DetailSets ==
    {c \in Configurations : c.blocks = {"b1"} /\ c.iocs = {"ioc1"} /\ c.groups[GRP_NONE] = {}}

\* set_config_details(details), as SET_CURR_CONFIG_DETAILS calls it
\* (block_server.py:411): the configuration in memory is replaced.
StoreEdit ==
    /\ nstore < MaxStoreOps
    /\ config.made
    /\ config' \in DetailSets \ {config}
    /\ svc' = NoVc(TRUE)
    /\ UNCHANGED <<files, lastSaved>>
    /\ StoreDone("edit", "")

\* clear_config(), as CLEAR_CONFIG calls it (block_server.py:321).
StoreClear ==
    /\ nstore < MaxStoreOps
    /\ config' = BlankConfiguration
    /\ svc' = NoVc(TRUE)
    /\ UNCHANGED <<files, lastSaved>>
    /\ StoreDone("clear", "")

\* save_config(configuration, root_path, config_name), file_manager.py:74-114.
StoreSave ==
    /\ nstore < MaxStoreOps
    /\ config.made
    /\ \E n \in ConfigNames, start \in VcStarts, ok \in BOOLEAN :
          /\ files' = [files EXCEPT ![n] = SaveFiles(files[n], config)]
          /\ lastSaved' = [lastSaved EXCEPT ![n] = config]
          /\ \E calls \in {<<>>, <<"add">>, <<"add", "commit">>} :
                /\ VcCallsFor(start, <<"add", "commit">>, calls, ok)
                /\ svc' = [start |-> start, calls |-> calls, ok |-> ok]
          /\ StoreDone("save", n)
    /\ config' = config

\* load_config(root_path, config_name, macros), file_manager.py:17-72: raises
\* when the directory is absent (lines 23-24), else the configuration read
\* replaces the one in memory.
StoreLoad ==
    /\ nstore < MaxStoreOps
    /\ \E n \in ConfigNames :
          /\ IF files[n].exists
               THEN config' = LoadFiles(files[n], n) /\ svc' = NoVc(TRUE)
               ELSE config' = config /\ svc' = NoVc(FALSE)
          /\ StoreDone("load", n)
    /\ UNCHANGED <<files, lastSaved>>

\* delete_configs and delete_configs_from_version_control for one name
\* (file_manager.py:137-144, 164-169).
StoreDelete ==
    /\ nstore < MaxStoreOps
    /\ \E n \in ConfigNames, start \in VcStarts, ok \in BOOLEAN :
          /\ files' = [files EXCEPT ![n] = NoDirectory]
          /\ lastSaved' = [lastSaved EXCEPT ![n] = NoConfiguration]
          /\ \E calls \in {<<>>, <<"remove">>, <<"remove", "commit">>} :
                /\ VcCallsFor(start, <<"remove", "commit">>, calls, ok)
                /\ svc' = [start |-> start, calls |-> calls, ok |-> ok]
          /\ StoreDone("delete", n)
    /\ config' = config

StoreNext ==
    \/ StoreEdit
    \/ StoreClear
    \/ StoreSave
    \/ StoreLoad
    \/ StoreDelete

StoreSpec == StoreInit /\ [][StoreNext]_vars

\* ------------------------------------------------------ GitVersionControl
\* Strings are sequences of characters.
UpperCase ==
    <<"A", "B", "C", "D", "E", "F", "G", "H", "I", "J", "K", "L", "M", "N", "O", "P", "Q", "R", "S", "T", "U", "V", "W", "X", "Y", "Z">>

LowerCase ==
    <<"a", "b", "c", "d", "e", "f", "g", "h", "i", "j", "k", "l", "m", "n", "o", "p", "q", "r", "s", "t", "u", "v", "w", "x", "y", "z">>

\* str.lower() on one character and on a string.
LowerChar(c) ==
    IF \E i \in 1..Len(UpperCase) : UpperCase[i] = c
      THEN LowerCase[CHOOSE i \in 1..Len(UpperCase) : UpperCase[i] = c]
      ELSE c

Lower(w) == [i \in 1..Len(w) |-> LowerChar(w[i])]

\* t in w
Contains(w, t) ==
    /\ Len(t) <= Len(w)
    /\ \E i \in 1..(Len(w) - Len(t) + 1) : SubSeq(w, i, i + Len(t) - 1) = t

\* w.startswith(t)
StartsWith(w, t) == Len(t) <= Len(w) /\ SubSeq(w, 1, Len(t)) = t

\* The strings of the model.
Str_dev_master2 == <<"d", "e", "v", "_", "m", "a", "s", "t", "e", "r", "2">>

Str_master == <<"m", "a", "s", "t", "e", "r">>

Str_MASTER == <<"M", "A", "S", "T", "E", "R">>

Str_ndxfoo == <<"n", "d", "x", "f", "o", "o">>

Str_NDXFOO == <<"N", "D", "X", "F", "O", "O">>

Str_ndxbar == <<"n", "d", "x", "b", "a", "r">>

Str_nd == <<"n", "d">>

Str_and == <<"a", "n", "d">>

Str_dev == <<"d", "e", "v">>

Branches ==
    {Str_master,
     Str_MASTER,
     Str_dev_master2,
     Str_ndxfoo,
     Str_NDXFOO,
     Str_ndxbar,
     Str_nd,
     Str_and,
     Str_dev}

Hosts ==
    {Str_NDXFOO,
     Str_ndxbar}

\* branch_allowed without the lower() of line 66.
BranchAllowedCaseSensitive(b, h) ==
    IF Contains(b, Str_master)
      THEN FALSE
      ELSE IF StartsWith(b, Str_nd) /\ b # Lower(h)
             THEN FALSE
             ELSE TRUE

\* branch_allowed(branch_name), git_version_control.py:57-75, with h the value
\* of socket.gethostname().
BranchAllowed(b, h) ==
    IF Contains(Lower(b), Str_master)
      THEN FALSE
      ELSE IF StartsWith(Lower(b), Str_nd) /\ Lower(b) # Lower(h)
             THEN FALSE
             ELSE TRUE

GitInit ==
    /\ BsInit
    /\ lastcfg = ""
    /\ DelIdle
    /\ StoreIdle
    /\ RestIdle
    /\ \E b \in Branches, h \in Hosts, l \in BOOLEAN : GitNew(b, h, l)

\* setup() when the branch check only records the error and goes on.
SetupBranchCheckGoesOn ==
    /\ spc = "new"
    /\ spc' = "unlock"
    /\ serr' = IF BranchAllowed(branch, host) THEN serr ELSE "NotUnderAllowedBranch"
    /\ UNCHANGED <<lockres, unpushed, late>>
    /\ UNCHANGED <<branch, host, lockfile, npull, push_required, push_lock, push_interval,
                   first_failure, ppc, cpc, cres, lastPush, failRun, runLogs, nlogs, nruns,
                   npush, ncommit>>
    /\ UNCHANGED notGit

\* setup(), lines 42-43: the branch check.
SetupBranchCheck ==
    /\ spc = "new"
    /\ IF BranchAllowed(branch, host)
         THEN spc' = "unlock" /\ serr' = serr
         ELSE spc' = "failed" /\ serr' = "NotUnderAllowedBranch"
    /\ UNCHANGED <<lockres, unpushed, late>>
    /\ UNCHANGED <<branch, host, lockfile, npull, push_required, push_lock, push_interval,
                   first_failure, ppc, cpc, cres, lastPush, failRun, runLogs, nlogs, nruns,
                   npush, ncommit>>
    /\ UNCHANGED notGit

\* _unlock() when the except clause of line 85 re-raises: setup() ends there.
SetupUnlockAborts ==
    /\ spc = "unlock"
    /\ \/ ~lockfile /\ lockfile' = FALSE /\ lockres' = "absent" /\ spc' = "pull"
       \/ lockfile /\ lockfile' = FALSE /\ lockres' = "removed" /\ spc' = "pull"
       \/ lockfile /\ lockfile' = TRUE /\ lockres' = "failed" /\ spc' = "failed"
    /\ UNCHANGED <<unpushed, late>>
    /\ UNCHANGED <<branch, host, serr, npull, push_required, push_lock, push_interval,
                   first_failure, ppc, cpc, cres, lastPush, failRun, runLogs, nlogs, nruns,
                   npush, ncommit>>
    /\ UNCHANGED notGit

\* setup(), line 45, and _unlock(), lines 77-88: nothing is done when
\* index.lock does not exist (line 81); otherwise os.remove either removes it
\* ("Lock removed" is logged) or raises, which is logged ("Unable to remove
\* lock") and not raised further.
SetupUnlock ==
    /\ spc = "unlock"
    /\ \/ ~lockfile /\ lockfile' = FALSE /\ lockres' = "absent"
       \/ lockfile /\ lockfile' = FALSE /\ lockres' = "removed"
       \/ lockfile /\ lockfile' = TRUE /\ lockres' = "failed"
    /\ spc' = "pull"
    /\ UNCHANGED <<unpushed, late>>
    /\ UNCHANGED <<branch, host, serr, npull, push_required, push_lock, push_interval,
                   first_failure, ppc, cpc, cres, lastPush, failRun, runLogs, nlogs, nruns,
                   npush, ncommit>>
    /\ UNCHANGED notGit

\* setup(), line 50, and _pull(), lines 156-162, when a failed pull is followed
\* by another attempt.
SetupPullRetry ==
    /\ spc = "pull"
    /\ npull' = npull + 1
    /\ \/ spc' = "start" /\ serr' = serr
       \/ npull = 0 /\ spc' = "pull" /\ serr' = serr
       \/ npull > 0 /\ spc' = "failed" /\ serr' = "GitPullFailed"
    /\ UNCHANGED <<lockres, unpushed, late>>
    /\ UNCHANGED <<branch, host, lockfile, push_required, push_lock, push_interval,
                   first_failure, ppc, cpc, cres, lastPush, failRun, runLogs, nlogs, nruns,
                   npush, ncommit>>
    /\ UNCHANGED notGit

\* setup(), line 50, and _pull(), lines 156-162: remote.pull() returns, or
\* raises GitCommandError, which _pull turns into GitPullFailed.
SetupPull ==
    /\ spc = "pull"
    /\ npull' = npull + 1
    /\ \/ spc' = "start" /\ serr' = serr
       \/ spc' = "failed" /\ serr' = "GitPullFailed"
    /\ UNCHANGED <<lockres, unpushed, late>>
    /\ UNCHANGED <<branch, host, lockfile, push_required, push_lock, push_interval,
                   first_failure, ppc, cpc, cres, lastPush, failRun, runLogs, nlogs, nruns,
                   npush, ncommit>>
    /\ UNCHANGED notGit

\* setup(), lines 53-55: the push thread is started; _push, lines 174-175,
\* sets its locals.
SetupStartPush ==
    /\ spc = "start"
    /\ spc' = "done"
    /\ ppc' = "top"
    /\ push_interval' = PUSH_BASE_INTERVAL
    /\ first_failure' = TRUE
    /\ UNCHANGED <<lockres, unpushed, late>>
    /\ UNCHANGED <<branch, host, lockfile, serr, npull, push_required, push_lock, cpc, cres,
                   lastPush, failRun, runLogs, nlogs, nruns, npush, ncommit>>
    /\ UNCHANGED notGit

\* What the steps of commit() leave alone.
CommitFrame ==
    /\ UNCHANGED <<branch, host, lockfile, lockres, spc, serr, npull, push_lock, push_interval,
                   first_failure, ppc, lastPush, failRun, runLogs, nlogs, nruns, npush>>
    /\ UNCHANGED notGit

\* repo.index.commit returned: the repository holds one more commit.  A push
\* already called may or may not carry it.
Recorded ==
    /\ unpushed' = unpushed + 1
    /\ late' = IF ppc = "pushing" THEN late + 1 ELSE late

\* commit(), line 120, when the flag is set whether or not the commit was
\* recorded (as in a finally clause).
CommitCallFlagAlways ==
    /\ cpc = "idle"
    /\ spc = "done"
    /\ ncommit < MaxCommits
    /\ ncommit' = ncommit + 1
    /\ \/ /\ cpc' = "flag" /\ cres' = "pending" /\ push_required' = push_required
          /\ Recorded
       \/ /\ cpc' = "idle" /\ cres' = "raised" /\ push_required' = TRUE
          /\ UNCHANGED <<unpushed, late>>
    /\ CommitFrame

\* commit(commit_comment), line 120: self.repo.index.commit(...) returns or raises.
CommitCall ==
    /\ cpc = "idle"
    /\ spc = "done"
    /\ ncommit < MaxCommits
    /\ ncommit' = ncommit + 1
    /\ \/ cpc' = "flag" /\ cres' = "pending" /\ Recorded
       \/ cpc' = "idle" /\ cres' = "raised" /\ UNCHANGED <<unpushed, late>>
    /\ push_required' = push_required
    /\ CommitFrame

\* commit(), line 122, without the with of line 121: the flag is set while
\* the push thread may be inside its with-block.
CommitSetFlagNoLock ==
    /\ cpc = "flag"
    /\ push_required' = TRUE
    /\ cpc' = "idle"
    /\ cres' = "ok"
    /\ ncommit' = ncommit
    /\ UNCHANGED <<unpushed, late>>
    /\ CommitFrame

\* commit(), lines 121-122: with self._push_lock: self._push_required = True.
\* The lock can be taken only while the push thread does not hold it.
CommitSetFlag ==
    /\ cpc = "flag"
    /\ push_lock = "free"
    /\ push_required' = TRUE
    /\ cpc' = "idle"
    /\ cres' = "ok"
    /\ ncommit' = ncommit
    /\ UNCHANGED <<unpushed, late>>
    /\ CommitFrame

\* What the steps of _push leave alone.
PushFrame ==
    /\ UNCHANGED <<branch, host, lockfile, lockres, spc, serr, npull, cpc, cres, ncommit>>
    /\ UNCHANGED notGit

\* _push, line 178: with self._push_lock.
PushAcquire ==
    /\ ppc = "top"
    /\ push_lock = "free"
    /\ push_required => npush < MaxPushes
    /\ push_lock' = "push"
    /\ ppc' = "test"
    /\ UNCHANGED <<push_required, push_interval, first_failure, lastPush, failRun, runLogs,
                   nlogs, nruns, npush>>
    /\ UNCHANGED <<unpushed, late>>
    /\ PushFrame

\* _push without the test of line 179: remote.push() is called although the
\* flag is clear.
PushSkipPushes ==
    /\ ppc = "test"
    /\ ~push_required
    /\ ppc' = "pushing"
    /\ npush' = npush + 1
    /\ UNCHANGED <<push_required, push_lock, push_interval, first_failure, lastPush, failRun,
                   runLogs, nlogs, nruns>>
    /\ UNCHANGED <<unpushed, late>>
    /\ PushFrame

\* _push, line 179, flag clear: the with-block ends.
PushSkip ==
    /\ ppc = "test"
    /\ ~push_required
    /\ push_lock' = "free"
    /\ ppc' = "sleep"
    /\ UNCHANGED <<push_required, push_interval, first_failure, lastPush, failRun, runLogs,
                   nlogs, nruns, npush>>
    /\ UNCHANGED <<unpushed, late>>
    /\ PushFrame

\* _push, lines 179-181, flag set: self.remote.push() is called, lock held.
PushBegin ==
    /\ ppc = "test"
    /\ push_required
    /\ ppc' = "pushing"
    /\ npush' = npush + 1
    /\ UNCHANGED <<push_required, push_lock, push_interval, first_failure, lastPush, failRun,
                   runLogs, nlogs, nruns>>
    /\ unpushed' = unpushed
    /\ late' = 0
    /\ PushFrame

\* _push, lines 182-184: the push returned.  It carried every commit recorded
\* before it was called; of those recorded since, any number may be left.
PushOk ==
    /\ ppc = "pushing"
    /\ push_required' = FALSE
    /\ push_interval' = PUSH_BASE_INTERVAL
    /\ first_failure' = TRUE
    /\ lastPush' = "ok"
    /\ failRun' = 0
    /\ runLogs' = 0
    /\ push_lock' = "free"
    /\ ppc' = "sleep"
    /\ UNCHANGED <<nlogs, nruns, npush>>
    /\ unpushed' \in 0..late
    /\ late' = 0
    /\ PushFrame

\* _push, lines 186-192, with an interval that doubles on every failure.
PushFailDoubling ==
    /\ ppc = "pushing"
    /\ push_interval' = 2 * push_interval
    /\ IF first_failure
         THEN nlogs' = nlogs + 1 /\ runLogs' = runLogs + 1
         ELSE nlogs' = nlogs /\ runLogs' = runLogs
    /\ first_failure' = FALSE
    /\ lastPush' = "failed"
    /\ failRun' = failRun + 1
    /\ nruns' = IF failRun = 0 THEN nruns + 1 ELSE nruns
    /\ push_lock' = "free"
    /\ ppc' = "sleep"
    /\ UNCHANGED <<push_required, npush>>
    /\ UNCHANGED <<unpushed, late>>
    /\ PushFrame

\* _push, lines 186-192, with the log line outside the test of first_failure.
PushFailLogsAlways ==
    /\ ppc = "pushing"
    /\ push_interval' = PUSH_RETRY_INTERVAL
    /\ nlogs' = nlogs + 1
    /\ runLogs' = runLogs + 1
    /\ first_failure' = FALSE
    /\ lastPush' = "failed"
    /\ failRun' = failRun + 1
    /\ nruns' = IF failRun = 0 THEN nruns + 1 ELSE nruns
    /\ push_lock' = "free"
    /\ ppc' = "sleep"
    /\ UNCHANGED <<push_required, npush>>
    /\ UNCHANGED <<unpushed, late>>
    /\ PushFrame

\* _push, lines 186-192: the push raised GitCommandError.
PushFail ==
    /\ ppc = "pushing"
    /\ push_interval' = PUSH_RETRY_INTERVAL
    /\ IF first_failure
         THEN nlogs' = nlogs + 1 /\ runLogs' = runLogs + 1
         ELSE nlogs' = nlogs /\ runLogs' = runLogs
    /\ first_failure' = FALSE
    /\ lastPush' = "failed"
    /\ failRun' = failRun + 1
    /\ nruns' = IF failRun = 0 THEN nruns + 1 ELSE nruns
    /\ push_lock' = "free"
    /\ ppc' = "sleep"
    /\ UNCHANGED <<push_required, npush>>
    /\ UNCHANGED <<unpushed, late>>
    /\ PushFrame

\* _push, line 181: the push raised something other than GitCommandError; no
\* clause catches it, the with-block releases the lock and the thread ends.
PushCrash ==
    /\ ppc = "pushing"
    /\ ppc' = "dead"
    /\ push_lock' = "free"
    /\ lastPush' = "crashed"
    /\ UNCHANGED <<push_required, push_interval, first_failure, failRun, runLogs, nlogs,
                   nruns, npush>>
    /\ UNCHANGED <<unpushed, late>>
    /\ PushFrame

\* _push, line 194: sleep(push_interval) returns.
PushSleep ==
    /\ ppc = "sleep"
    /\ ppc' = "top"
    /\ UNCHANGED <<push_required, push_lock, push_interval, first_failure, lastPush, failRun,
                   runLogs, nlogs, nruns, npush>>
    /\ UNCHANGED <<unpushed, late>>
    /\ PushFrame

GitNext ==
    \/ SetupBranchCheck
    \/ SetupUnlock
    \/ SetupPull
    \/ SetupStartPush
    \/ CommitCall
    \/ CommitSetFlag
    \/ PushAcquire
    \/ PushSkip
    \/ PushBegin
    \/ PushOk
    \/ PushFail
    \/ PushCrash
    \/ PushSleep

GitSpec == GitInit /\ [][GitNext]_vars

\* ------------------------------------------- GitVersionControl.add / remove
MaxIndexCalls == 3

\* SYSTEM_TEST_PREFIX = "rcptt_"  (git_version_control.py:12)
SYSTEM_TEST_PREFIX == <<"r", "c", "p", "t", "t", "_">>

\* The paths of the model: a configuration directory "d" and its file "d/f", a
\* system-test directory "rcptt_t" and its file "rcptt_t/f", and a file "rcptt"
\* whose name stops short of the prefix.
Path_d == <<"d">>

Path_df == <<"d", "/", "f">>

Path_t == SYSTEM_TEST_PREFIX \o <<"t">>

Path_tf == Path_t \o <<"/", "f">>

Path_rcptt == <<"r", "c", "p", "t", "t">>

Paths == {Path_d, Path_df, Path_t, Path_tf, Path_rcptt}

DirPaths == {Path_d, Path_t}

\* _should_ignore(file_path), lines 196-200: the prefix occurs anywhere in the path.
ShouldIgnore(p) == Contains(p, SYSTEM_TEST_PREFIX)

\* The paths below the directory p that exist (what os.walk(p) visits).
Below(p) == {q \in fsys : q # p /\ StartsWith(q, p \o <<"/">>)}

\* os.path.isdir(p)
IsDir(p) == p \in DirPaths /\ p \in fsys

\* A working directory: a file exists only inside an existing directory.  The
\* index tracks files that were added, none of them a system-test path.
IdxInit ==
    /\ BsInit
    /\ lastcfg = ""
    /\ DelIdle
    /\ StoreIdle
    /\ GitIdle
    /\ WatchIdle
    /\ HookIdle
    /\ LaterIdle
    /\ fsys \in {f \in SUBSET Paths :
                    /\ Path_df \in f => Path_d \in f
                    /\ Path_tf \in f => Path_t \in f}
    /\ index \in SUBSET {p \in fsys \ DirPaths : ~ShouldIgnore(p)}
    /\ ixcall = [op |-> "none", path |-> <<>>]
    /\ ixops = <<>>
    /\ ixres = "none"
    /\ nix = 0

\* What repo.index.add([p]) adds: the file p, or the files below the directory p.
Added(p) == IF IsDir(p) THEN Below(p) ELSE {p}

\* add(path), lines 101-113.  An ignored path returns at once.  Otherwise
\* repo.index.add([path]) returns, or raises WindowsError, after which
\* _set_permissions() is called and the add is made a second time (returning or
\* raising to the caller), or raises another error, which reaches the caller.
\* An add can return only for a path that exists.
Add(p) ==
    /\ nix < MaxIndexCalls
    /\ nix' = nix + 1
    /\ ixcall' = [op |-> "add", path |-> p]
    /\ fsys' = fsys
    /\ IF ShouldIgnore(p)
         THEN /\ ixops' = <<>>
              /\ ixres' = "ok"
              /\ index' = index
         ELSE \/ /\ p \in fsys
                 /\ ixops' = <<<<"add", {p}>>>>
                 /\ ixres' = "ok"
                 /\ index' = index \cup Added(p)
              \/ /\ p \in fsys
                 /\ ixops' = <<<<"add", {p}>>, <<"add", {p}>>>>
                 /\ ixres' = "ok"
                 /\ index' = index \cup Added(p)
              \/ /\ ixops' \in {<<<<"add", {p}>>>>, <<<<"add", {p}>>, <<"add", {p}>>>>}
                 /\ ixres' = "raised"
                 /\ index' = index
    /\ UNCHANGED notIdx

\* delete_list of remove(path), lines 145-153.
DeleteList(p) == IF IsDir(p) THEN Below(p) ELSE {p}

\* remove(path), lines 131-154.  An ignored path that exists is deleted from the
\* file system only (rmtree for a directory).  Every other path reaches
\* repo.index.remove(delete_list, True), which removes the listed paths from
\* the index and the working tree, and raises when the list is empty or names
\* a path the index does not track.
Remove(p) ==
    /\ nix < MaxIndexCalls
    /\ nix' = nix + 1
    /\ ixcall' = [op |-> "remove", path |-> p]
    /\ IF ShouldIgnore(p) /\ p \in fsys
         THEN /\ fsys' = fsys \ ({p} \cup Below(p))
              /\ index' = index
              /\ ixops' = <<>>
              /\ ixres' = "ok"
         ELSE /\ ixops' = <<<<"remove", DeleteList(p)>>>>
              /\ IF DeleteList(p) # {} /\ DeleteList(p) \subseteq index
                   THEN /\ index' = index \ DeleteList(p)
                        /\ fsys' = fsys \ ({p} \cup DeleteList(p))
                        /\ ixres' = "ok"
                   ELSE /\ index' = index
                        /\ fsys' = fsys
                        /\ ixres' = "raised"
    /\ UNCHANGED notIdx

IdxNext ==
    \/ \E p \in Paths : Add(p)
    \/ \E p \in Paths : Remove(p)

IdxSpec == IdxInit /\ [][IdxNext]_vars

\* -------------------------------------------------- ConfigFileEventHandler
MaxEdits == 2

MaxSaves == 1

\* os.sep
Sep == "/"

\* FILEPATH_MANAGER.config_dir and FILEPATH_MANAGER.component_dir
ConfigDir == <<Sep, "c">>

ComponentDir == <<Sep, "k">>

\* self._watching_path, lines 45-48
WatchingPath(comp) == IF comp THEN ComponentDir ELSE ConfigDir

Name_X == <<"X">>

Name_Y == <<"Y">>

WatchNames == {Name_X, Name_Y}

\* What a file event can name below the watched root: a file at the root, a
\* configuration directory itself, a file of a configuration, a file one
\* level deeper.
EventSegs ==
    {<<<<"f">>>>, <<Name_X>>, <<Name_X, <<"f">>>>, <<Name_Y, <<"f">>>>,
     <<Name_X, <<"s">>, <<"f">>>>}

RECURSIVE JoinPath(_)
\* The path of the segments segs below a root: each one after a separator.
JoinPath(segs) ==
    IF segs = <<>> THEN <<>> ELSE <<Sep>> \o Head(segs) \o JoinPath(Tail(segs))

\* event.src_path of an event for the segments segs under the watch comp
EventPath(comp, segs) == WatchingPath(comp) \o JoinPath(segs)

Event(comp, segs, origin) ==
    [path |-> EventPath(comp, segs), segs |-> segs, origin |-> origin]

RECURSIVE Replace(_, _)
\* string.replace(w, t, ''): every occurrence of t is removed, left to right.
Replace(w, t) ==
    IF Len(w) < Len(t) THEN w
    ELSE IF StartsWith(w, t) THEN Replace(SubSeq(w, Len(t) + 1, Len(w)), t)
    ELSE <<Head(w)>> \o Replace(Tail(w), t)

RECURSIVE Split(_, _)
\* string.split(w, c): the pieces of w between the occurrences of c.
Split(w, c) ==
    IF \A i \in 1..Len(w) : w[i] # c THEN <<w>>
    ELSE LET i == CHOOSE k \in 1..Len(w) : w[k] = c /\ \A j \in 1..(k - 1) : w[j] # c
         IN  <<SubSeq(w, 1, i - 1)>> \o Split(SubSeq(w, i + 1, Len(w)), c)

\* _split_config_path(path), lines 114-133
SplitConfigPath(path, comp) ==
    LET rel_path == Replace(path, WatchingPath(comp))
        stripped == IF StartsWith(rel_path, <<Sep>>) THEN Tail(rel_path) ELSE rel_path
    IN  Split(stripped, Sep)

\* _check_file_at_root with "< 1" for "< 2".
CheckFileAtRootOffByOne(path, comp) == Len(SplitConfigPath(path, comp)) < 1

\* _check_file_at_root(path), lines 107-112
CheckFileAtRoot(path, comp) == Len(SplitConfigPath(path, comp)) < 2

\* _get_name(path), lines 82-92
GetName(path, comp) == SplitConfigPath(path, comp)[1]

\* The watch of one root is running: directory X is on disk, valid and
\* catalogued as it is; there is no directory Y.
WatchInit ==
    /\ BsInit
    /\ lastcfg = ""
    /\ DelIdle
    /\ StoreIdle
    /\ GitIdle
    /\ IdxIdle
    /\ HookIdle
    /\ LaterIdle
    /\ \E w \in BOOLEAN :
          WatchNew(w,
                   [n \in WatchNames |->
                      IF n = Name_X THEN [ver |-> 1, valid |-> TRUE]
                      ELSE [ver |-> 0, valid |-> FALSE]],
                   [n \in WatchNames |-> IF n = Name_X THEN 1 ELSE 0])

\* A write to the file named by segs reaches the disk: a write inside the
\* directory of a configuration makes a new version of it, valid or not.
Written(d, segs, valid) ==
    IF Len(segs) >= 2 /\ Head(segs) \in WatchNames
      THEN [d EXCEPT ![Head(segs)] = [ver |-> @.ver + 1, valid |-> valid]]
      ELSE d

\* A watch that sees every write, paused or not.
ObservedAlways(q, e) == Append(q, e)

\* The watch sees a write only while it is not paused.
Observed(q, e) == IF paused THEN q ELSE Append(q, e)

\* An edit made outside the program.
Edit(segs, valid) ==
    /\ nedit < MaxEdits
    /\ nedit' = nedit + 1
    /\ wdisk' = Written(wdisk, segs, valid)
    /\ fq' = Observed(fq, Event(is_comp, segs, "edit"))
    /\ UNCHANGED <<is_comp, wcat, schema_lock, fpc, fev, fic, fres, floaded, flogged,
                   paused, svpc, swritten, nsave>>
    /\ UNCHANGED notWatch

\* pause() before a programmatic save.
SavePause ==
    /\ svpc = "idle"
    /\ nsave < MaxSaves
    /\ paused' = TRUE
    /\ svpc' = "write"
    /\ swritten' = 0
    /\ UNCHANGED <<is_comp, wdisk, wcat, schema_lock, fq, fpc, fev, fic, fres, floaded,
                   flogged, nedit, nsave>>
    /\ UNCHANGED notWatch

\* save_config (file_manager.py:74-114) writes one of the five files of X.
SaveWrite ==
    /\ svpc = "write"
    /\ swritten < 5
    /\ swritten' = swritten + 1
    /\ wdisk' = Written(wdisk, <<Name_X, <<"f">>>>, TRUE)
    /\ fq' = Observed(fq, Event(is_comp, <<Name_X, <<"f">>>>, "save"))
    /\ UNCHANGED <<is_comp, wcat, schema_lock, fpc, fev, fic, fres, floaded, flogged,
                   paused, svpc, nedit, nsave>>
    /\ UNCHANGED notWatch

\* The five files are written: the catalogue entry is updated
\* (save_active_config, block_server.py:511) and resume() is called.
SaveResume ==
    /\ svpc = "write"
    /\ swritten = 5
    /\ wcat' = [wcat EXCEPT ![Name_X] = wdisk[Name_X].ver]
    /\ paused' = FALSE
    /\ svpc' = "idle"
    /\ nsave' = nsave + 1
    /\ UNCHANGED <<is_comp, wdisk, schema_lock, fq, fpc, fev, fic, fres, floaded, flogged,
                   swritten, nedit>>
    /\ UNCHANGED notWatch

\* The next event is delivered to the handler.
WatchDeliver ==
    /\ fpc = "idle"
    /\ fq # <<>>
    /\ fev' = Head(fq)
    /\ fq' = Tail(fq)
    /\ fpc' = "check"
    /\ fic' = 0
    /\ fres' = "none"
    /\ floaded' = <<>>
    /\ UNCHANGED <<is_comp, wdisk, wcat, schema_lock, flogged, paused, svpc, swritten,
                   nedit, nsave>>
    /\ UNCHANGED notWatch

\* _check_valid, lines 69-74: a file at the root raises NotConfigFileException,
\* which ends the handling of the event; any other path waits for the schema
\* lock and enters the with block.
WatchCheckRoot ==
    /\ fpc = "check"
    /\ IF CheckFileAtRoot(fev.path, is_comp)
         THEN /\ fpc' = "idle"
              /\ fres' = "rejected"
              /\ schema_lock' = schema_lock
         ELSE /\ schema_lock = "free"
              /\ schema_lock' = "watcher"
              /\ fpc' = "load"
              /\ fres' = fres
    /\ UNCHANGED <<is_comp, wdisk, wcat, fq, fev, fic, floaded, flogged, paused, svpc,
                   swritten, nedit, nsave>>
    /\ UNCHANGED notWatch

\* _check_valid with the error of load_config left uncaught: it leaves the
\* handler and ends the delivery thread.
WatchLoadUncaught ==
    /\ fpc = "load"
    /\ floaded' = Append(floaded, GetName(fev.path, is_comp))
    /\ schema_lock' = "free"
    /\ LET n == GetName(fev.path, is_comp)
       IN  IF n \in WatchNames /\ wdisk[n].ver > 0 /\ wdisk[n].valid
             THEN /\ fic' = wdisk[n].ver
                  /\ fpc' = "update"
                  /\ fres' = fres
             ELSE /\ fic' = 0
                  /\ fpc' = "dead"
                  /\ fres' = "raised"
    /\ UNCHANGED <<is_comp, wdisk, wcat, fq, fev, flogged, paused, svpc, swritten, nedit,
                   nsave>>
    /\ UNCHANGED notWatch

\* _check_valid, lines 74-80, inside the with block: load_config of the name
\* returns the configuration (the directory is there and valid) or raises;
\* the error is logged and ic stays None.  The lock is released on the way out.
WatchLoad ==
    /\ fpc = "load"
    /\ floaded' = Append(floaded, GetName(fev.path, is_comp))
    /\ schema_lock' = "free"
    /\ LET n == GetName(fev.path, is_comp)
       IN  IF n \in WatchNames /\ wdisk[n].ver > 0 /\ wdisk[n].valid
             THEN /\ fic' = wdisk[n].ver
                  /\ fpc' = "update"
                  /\ fres' = fres
                  /\ flogged' = flogged
             ELSE /\ fic' = 0
                  /\ fpc' = "idle"
                  /\ fres' = "stale"
                  /\ flogged' = flogged + 1
    /\ UNCHANGED <<is_comp, wdisk, wcat, fq, fev, paused, svpc, swritten, nedit, nsave>>
    /\ UNCHANGED notWatch

\* _update(data), lines 50-57: the configuration that was loaded replaces the
\* catalogue entry.
WatchUpdate ==
    /\ fpc = "update"
    /\ wcat' = [wcat EXCEPT ![GetName(fev.path, is_comp)] = fic]
    /\ fpc' = "idle"
    /\ fres' = "updated"
    /\ UNCHANGED <<is_comp, wdisk, schema_lock, fq, fev, fic, floaded, flogged, paused,
                   svpc, swritten, nedit, nsave>>
    /\ UNCHANGED notWatch

WatchNext ==
    \/ \E segs \in EventSegs, valid \in BOOLEAN : Edit(segs, valid)
    \/ SavePause
    \/ SaveWrite
    \/ SaveResume
    \/ WatchDeliver
    \/ WatchCheckRoot
    \/ WatchLoad
    \/ WatchUpdate

WatchSpec == WatchInit /\ [][WatchNext]_vars

\* ------------------------------- BlockServer.write: the refresh of collaborators
MaxCommands == 3

HookBlocks == {"b1", "b2"}

HookIocs == {"i1", "i2"}

\* One component, which carries one block.
HookComps == {"k1"}

CompBlocks(k) == {"kb"}

\* The configurations on disk that load_config can load.
SavedConfigs ==
    {[blocks |-> {"b1"}, comps |-> {}, iocs |-> {"i1"}],
     [blocks |-> {"b2"}, comps |-> {"k1"}, iocs |-> {"i1", "i2"}]}

\* self._active_configserver.get_blocks(): the blocks of the configuration and
\* of its components.
GetBlocks(c) == c.blocks \cup UNION {CompBlocks(k) : k \in c.comps}

\* One call made by a handler: the callee and its argument.
Call(f, arg) == [f |-> f, arg |-> arg]

\* The state the calls act on.
HookState == [acs |-> acs, running |-> running, aliases |-> aliases]

\* A call returns: what it leaves.  The methods of the active configuration
\* change its membership; stop_iocs_and_start_config_iocs leaves exactly the
\* IOCs of the configuration running; set_new_aliases sets the alias table;
\* the other calls change nothing that is modelled.
Returned(c, st) ==
    CASE c.f = "add_blocks_json" -> [st EXCEPT !.acs.blocks = @ \cup c.arg]
      [] c.f = "remove_blocks" -> [st EXCEPT !.acs.blocks = @ \ c.arg]
      [] c.f = "edit_blocks_json" ->
           [st EXCEPT !.acs.blocks = IF c.arg \subseteq @ THEN HookBlocks \ c.arg ELSE @]
      [] c.f = "add_subconfigs" -> [st EXCEPT !.acs.comps = @ \cup c.arg]
      [] c.f = "remove_subconfigs" -> [st EXCEPT !.acs.comps = @ \ c.arg]
      [] c.f = "add_iocs" -> [st EXCEPT !.acs.iocs = @ \cup c.arg]
      [] c.f = "remove_iocs" -> [st EXCEPT !.acs.iocs = @ \ c.arg]
      [] c.f = "clear_config" -> [st EXCEPT !.acs = [blocks |-> {}, comps |-> {}, iocs |-> {}]]
      [] c.f = "load_config" -> [st EXCEPT !.acs = c.arg]
      [] c.f = "stop_iocs_and_start_config_iocs" -> [st EXCEPT !.running = st.acs.iocs]
      [] c.f = "set_new_aliases" -> [st EXCEPT !.aliases = GetBlocks(st.acs)]
      [] OTHER -> st

RECURSIVE RunCalls(_, _)
\* The calls of a handler that returned, made in order from the state st.
RunCalls(calls, st) ==
    IF calls = <<>> THEN st ELSE RunCalls(Tail(calls), Returned(Head(calls), st))

\* _initialise_config(restart_iocs, init_gateway), block_server.py:452-463
InitialiseConfigCalls(restart_iocs, init_gateway) ==
    (IF restart_iocs THEN <<Call("stop_iocs_and_start_config_iocs", {})>> ELSE <<>>)
    \o (IF init_gateway THEN <<Call("set_new_aliases", {})>> ELSE <<>>)
    \o <<Call("update_blocks_monitors", {}), Call("update_config_monitors", {}),
         Call("update_config_iocs_monitors", {}), Call("update_archiver", {})>>

\* The calls of each branch of write (block_server.py:244-392) and of
\* load_config (465-478), in the order they are made.
HandlerCalls(kind, arg) ==
    CASE kind = "ADD_BLOCKS" ->
           <<Call("add_blocks_json", arg), Call("update_blocks_monitors", {})>>
      [] kind = "REMOVE_BLOCKS" ->
           <<Call("remove_blocks", arg), Call("update_blocks_monitors", {})>>
      [] kind = "EDIT_BLOCKS" ->
           <<Call("edit_blocks_json", arg), Call("update_blocks_monitors", {})>>
      [] kind = "ADD_COMPS" ->
           <<Call("add_subconfigs", arg)>> \o InitialiseConfigCalls(FALSE, TRUE)
      [] kind = "REMOVE_COMPS" ->
           <<Call("remove_subconfigs", arg)>> \o InitialiseConfigCalls(FALSE, TRUE)
      [] kind = "CLEAR_CONFIG" ->
           <<Call("clear_config", {})>> \o InitialiseConfigCalls(TRUE, TRUE)
      [] kind = "ACTION_CHANGES" ->
           <<Call("autosave_config", {}), Call("set_new_aliases", {}),
             Call("update_archiver", {}), Call("create_runcontrol_pvs", {})>>
      [] kind = "ADD_IOCS" ->
           <<Call("add_iocs", arg), Call("autosave_config", {}),
             Call("update_config_iocs_monitors", {})>>
      [] kind = "REMOVE_IOCS" ->
           <<Call("remove_iocs", arg), Call("autosave_config", {}),
             Call("update_config_iocs_monitors", {})>>
      [] kind = "load_config" ->
           <<Call("load_config", arg)>> \o InitialiseConfigCalls(TRUE, TRUE)
             \o <<Call("update_get_details_monitors", {})>>

\* The commands and their arguments.
HookCommands ==
    ({"ADD_BLOCKS", "REMOVE_BLOCKS", "EDIT_BLOCKS"} \X {{"b1"}, {"b2"}})
    \cup ({"ADD_COMPS", "REMOVE_COMPS"} \X {{"k1"}})
    \cup ({"CLEAR_CONFIG", "ACTION_CHANGES"} \X {{}})
    \cup ({"ADD_IOCS", "REMOVE_IOCS"} \X {{"i1"}, {"i2"}, {"i1", "i2"}})
    \cup ({"load_config"} \X SavedConfigs)

\* A blank configuration, nothing running, no alias: what the constructor of
\* line 195 and a gateway without aliases start from, and what an initialise
\* task that found no last configuration leaves.
HookInit ==
    /\ BsInit
    /\ lastcfg = ""
    /\ DelIdle
    /\ StoreIdle
    /\ GitIdle
    /\ IdxIdle
    /\ WatchIdle
    /\ HookIdle
    /\ LaterIdle

\* One branch of write, or load_config, from its first call to its except
\* clause: the first n calls return and, when n is not all of them, the next
\* one raises; the handler catches the error and answers "Error".
Handle(kind, arg, n) ==
    /\ nhook < MaxCommands
    /\ n \in 0..Len(HandlerCalls(kind, arg))
    /\ nhook' = nhook + 1
    /\ LET calls == HandlerCalls(kind, arg)
           st == RunCalls(SubSeq(calls, 1, n), HookState)
       IN  /\ acs' = st.acs
           /\ running' = st.running
           /\ aliases' = st.aliases
           /\ hop' = [kind |-> kind, arg |-> arg,
                      calls |-> [i \in 1..IF n < Len(calls) THEN n + 1 ELSE n |-> calls[i].f],
                      ok |-> n = Len(calls), loaded |-> kind = "load_config" /\ n >= 1]
    /\ UNCHANGED notHook

\* Every way a command of the kind given can go.
Handled(kind) ==
    \E cmd \in HookCommands :
        /\ cmd[1] = kind
        /\ \E n \in 0..Len(HandlerCalls(kind, cmd[2])) : Handle(kind, cmd[2], n)

\* The last configuration as load_last_config finds it: none, or a saved one.
LastConfigs == {{}} \cup {{c} : c \in SavedConfigs}

\* The calls inside the try of initialise_configserver (lines 197-203):
\* gateway.exists(), then load_last_config (443-450): the manager's
\* load_last_config returns None, answered by clear_config(), or loads the
\* last configuration; then _initialise_config().
InitialiseTry(last) ==
    <<Call("exists", {})>>
    \o (IF last = {}
          THEN <<Call("load_last_config", {}), Call("clear_config", {})>>
          ELSE <<Call("load_config", CHOOSE c \in last : TRUE)>>)
    \o InitialiseConfigCalls(TRUE, TRUE)

\* How the initialise task ends: it returns, or clear_config() of the except
\* clause raises, or one of the two monitor updates of lines 209-210 raises.
InitialiseEnds == {"returned", "handler_raised", "monitors_raised"}

\* initialise_configserver, lines 193-210, the first task the worker runs: the
\* first n calls of the try return and, when n is not all of them, the next
\* one raises into the except clause, which calls clear_config(); the monitor
\* updates follow on both paths.  An exception outside the try ends the task
\* (and the worker) where it is.
InitialiseConfigserver ==
    /\ hop.kind = "none"
    /\ nhook = 0
    /\ \E last \in LastConfigs, end \in InitialiseEnds :
         \E n \in 0..Len(InitialiseTry(last)) :
            LET calls == InitialiseTry(last)
                tried == RunCalls(SubSeq(calls, 1, n), HookState)
                st == IF n = Len(calls) \/ end = "handler_raised"
                        THEN tried
                        ELSE Returned(Call("clear_config", {}), tried)
            IN  /\ end = "handler_raised" => n < Len(calls)
                /\ acs' = st.acs
                /\ running' = st.running
                /\ aliases' = st.aliases
                /\ hop' = [kind |-> IF end = "returned" THEN LabelInit ELSE "DIED",
                           arg |-> {},
                           calls |-> [i \in 1..IF n < Len(calls) THEN n + 1 ELSE n |-> calls[i].f],
                           ok |-> n = Len(calls) /\ end = "returned",
                           loaded |-> last # {} /\ n >= 2]
    /\ nhook' = nhook
    /\ UNCHANGED notHook

\* write, lines 244-252
WriteAddBlocks == Handled("ADD_BLOCKS")

\* write, lines 253-260
WriteRemoveBlocks == Handled("REMOVE_BLOCKS")

\* write, lines 261-269
WriteEditBlocks == Handled("EDIT_BLOCKS")

\* write, lines 270-277, and add_subconfigs, lines 480-484
WriteAddComps == Handled("ADD_COMPS")

\* write, lines 278-285, and remove_subconfigs, lines 486-489
WriteRemoveComps == Handled("REMOVE_COMPS")

\* write, lines 319-326
WriteClearConfig == Handled("CLEAR_CONFIG")

\* write, lines 327-336
WriteActionChanges == Handled("ACTION_CHANGES")

\* write, lines 371-381
WriteAddIocs == Handled("ADD_IOCS")

\* write, lines 382-392
WriteRemoveIocs == Handled("REMOVE_IOCS")

\* load_config, lines 465-478, as the worker runs it
RunLoadConfig == Handled("load_config")

HookNext ==
    \/ InitialiseConfigserver
    \/ WriteAddBlocks
    \/ WriteRemoveBlocks
    \/ WriteEditBlocks
    \/ WriteAddComps
    \/ WriteRemoveComps
    \/ WriteClearConfig
    \/ WriteActionChanges
    \/ WriteAddIocs
    \/ WriteRemoveIocs
    \/ RunLoadConfig

HookSpec == HookInit /\ [][HookNext]_vars

\* ------------------------------------------------- save_config, step by step
MaxSaveCalls == 2

\* The five files in the order save_config writes them (lines 93-111).
SaveOrder == <<"blocks", "groups", "iocs", "subconfigs", "meta">>

\* The file writes of the log, and its version-control calls.
Writes(log) == SelectSeq(log, LAMBDA e : e \in Range(SaveOrder))

VcCallsOf(log) == SelectSeq(log, LAMBDA e : e \in {"add", "commit"})

SaveInit ==
    /\ BsInit
    /\ lastcfg = ""
    /\ DelIdle
    /\ StoreIdle
    /\ GitIdle
    /\ IdxIdle
    /\ WatchIdle
    /\ HookIdle
    /\ SaveIdle
    /\ RemoteIdle

\* save_config is called (lines 75-91): the directory is made if need be and
\* the five documents are built.
SaveConfigBegin ==
    /\ scpc \in {"idle", "done", "raised"}
    /\ nsc < MaxSaveCalls
    /\ nsc' = nsc + 1
    /\ sctest' \in BOOLEAN
    /\ scname' \in ConfigNames
    /\ scstart' = "none"
    /\ sclog' = <<>>
    /\ scpc' = "write"
    /\ UNCHANGED sccommits
    /\ UNCHANGED notSave

\* Lines 93-111: the next of the five files is opened and written, or the
\* open or the write raises, which ends save_config with the error.
SaveConfigWrite ==
    /\ scpc = "write"
    /\ Len(sclog) < Len(SaveOrder)
    /\ \/ sclog' = Append(sclog, SaveOrder[Len(sclog) + 1]) /\ scpc' = scpc
       \/ sclog' = sclog /\ scpc' = "raised"
    /\ UNCHANGED <<sctest, scname, scstart, sccommits, nsc>>
    /\ UNCHANGED notSave

\* Lines 113-114 with the test of test_mode left out.
SaveConfigWrittenAlwaysVc ==
    /\ scpc = "write"
    /\ Len(sclog) = Len(SaveOrder)
    /\ scpc' = "start"
    /\ UNCHANGED <<sctest, scname, scstart, sclog, sccommits, nsc>>
    /\ UNCHANGED notSave

\* Lines 113-114: the five files are written; in test mode save_config
\* returns, otherwise it calls add_configs_to_version_control.
SaveConfigWritten ==
    /\ scpc = "write"
    /\ Len(sclog) = Len(SaveOrder)
    /\ scpc' = IF sctest THEN "done" ELSE "start"
    /\ UNCHANGED <<sctest, scname, scstart, sclog, sccommits, nsc>>
    /\ UNCHANGED notSave

\* add_configs_to_version_control, lines 131-132, and start_version_control,
\* lines 116-126: with no client (vc is None) nothing more is done.
AddConfigsStart ==
    /\ scpc = "start"
    /\ scstart' \in VcStarts
    /\ scpc' = IF scstart' = "client" THEN "add" ELSE "done"
    /\ UNCHANGED <<sctest, scname, sclog, sccommits, nsc>>
    /\ UNCHANGED notSave

\* Lines 133-134: vc.add for the one name; it returns or raises.
AddConfigsAdd ==
    /\ scpc = "add"
    /\ sclog' = Append(sclog, "add")
    /\ scpc' \in {"commit", "raised"}
    /\ UNCHANGED <<sctest, scname, scstart, sccommits, nsc>>
    /\ UNCHANGED notSave

\* Line 135: vc.commit; it records the commit and returns, or raises.
AddConfigsCommit ==
    /\ scpc = "commit"
    /\ sclog' = Append(sclog, "commit")
    /\ \/ scpc' = "done" /\ sccommits' = sccommits + 1
       \/ scpc' = "raised" /\ sccommits' = sccommits
    /\ UNCHANGED <<sctest, scname, scstart, nsc>>
    /\ UNCHANGED notSave

SaveNext ==
    \/ SaveConfigBegin
    \/ SaveConfigWrite
    \/ SaveConfigWritten
    \/ AddConfigsStart
    \/ AddConfigsAdd
    \/ AddConfigsCommit

SaveSpec == SaveInit /\ [][SaveNext]_vars

\* ------------------------------ ConfigurationMonitor (config_monitor.py)
MaxPrefixCalls == 3

MaxUpdates == 2

Prefixes == {"TE:A:", "TE:B:"}

\* What one update does when everything returns, in order (lines 103-107, 59).
UpdateOrder == <<"iocs.xml", "last_config.txt", "restart">>

RemoteInit ==
    /\ BsInit
    /\ lastcfg = ""
    /\ DelIdle
    /\ StoreIdle
    /\ GitIdle
    /\ IdxIdle
    /\ WatchIdle
    /\ HookIdle
    /\ SaveIdle
    /\ RemoteIdle

\* What the steps of set_remote_pv_prefix leave alone.
PrefixFrame ==
    /\ UNCHANGED <<rupc, rulog, rures, nupd>>
    /\ UNCHANGED notRemote

\* What the steps of _config_updated leave alone.
UpdateFrame ==
    /\ UNCHANGED <<rmpc, rmprefix, rmmon, rmlive, rmcb, nset>>
    /\ UNCHANGED notRemote

\* __init__, lines 38-39, and set_remote_pv_prefix, lines 42-44, with the test
\* of _start_monitoring, line 50: the prefix is stored; the old monitor, if
\* there is one, is ended next.
SetRemotePvPrefix ==
    /\ rmpc \in {"new", "idle"}
    /\ nset < MaxPrefixCalls
    /\ nset' = nset + 1
    /\ \E p \in Prefixes : rmprefix' = p
    /\ rmpc' = IF rmmon = 0 THEN "start" ELSE "end"
    /\ UNCHANGED <<rmmon, rmlive, rmcb>>
    /\ PrefixFrame

\* _start_monitoring without lines 50-51: the old monitor is left as it is.
MonitorEndSkipped ==
    /\ rmpc = "end"
    /\ rmpc' = "start"
    /\ UNCHANGED <<rmprefix, rmmon, rmlive, rmcb, nset>>
    /\ PrefixFrame

\* _start_monitoring, line 51, and _ConfigurationMonitor.end, lines 28-29:
\* clear_channel() returns and the subscription is gone, or it raises and
\* set_remote_pv_prefix ends there.
MonitorEnd ==
    /\ rmpc = "end"
    /\ \/ rmlive' = rmlive \ {rmmon} /\ rmpc' = "start"
       \/ rmlive' \in {rmlive, rmlive \ {rmmon}} /\ rmpc' = "idle"
    /\ UNCHANGED <<rmprefix, rmmon, rmcb, nset>>
    /\ PrefixFrame

\* _start_monitoring, lines 52-53, and _ConfigurationMonitor.start, lines
\* 25-26: a new object replaces self._monitor; add_monitor subscribes it or
\* raises.  Inside __init__ the assignment of line 40 is still to come, and a
\* raise leaves no object constructed.
MonitorStart ==
    /\ rmpc = "start"
    /\ rmmon' = nset
    /\ \/ rmlive' = rmlive \cup {nset} /\ rmpc' = IF rmcb THEN "idle" ELSE "assign"
       \/ rmlive' = rmlive /\ rmpc' = IF rmcb THEN "idle" ELSE "dead"
    /\ UNCHANGED <<rmprefix, rmcb, nset>>
    /\ PrefixFrame

\* __init__, line 40: self.restart_iocs_callback_func = restart_iocs_callback.
AssignCallback ==
    /\ rmpc = "assign"
    /\ rmcb' = TRUE
    /\ rmpc' = "idle"
    /\ UNCHANGED <<rmprefix, rmmon, rmlive, nset>>
    /\ PrefixFrame

\* An active monitor calls _config_updated (line 55) with a new value.
UpdateArrives ==
    /\ rupc = "idle"
    /\ rmlive # {}
    /\ nupd < MaxUpdates
    /\ nupd' = nupd + 1
    /\ rupc' = "decode"
    /\ rulog' = <<>>
    /\ rures' = rures
    /\ UpdateFrame

\* The update ends with the outcome given.
UpdateEnds(outcome) ==
    /\ rupc' = "idle"
    /\ rures' = Append(rures, outcome)

\* Lines 57-58 and 66-101: dehex_and_decompress, json.loads, the IOC objects,
\* the XML and the directory.  A TypeError, ValueError or IOError is caught
\* and logged at lines 60-62; any other exception (zlib.error, KeyError)
\* leaves _config_updated.
UpdateDecode ==
    /\ rupc = "decode"
    /\ \/ rupc' = "write_iocs" /\ rures' = rures
       \/ UpdateEnds("decode_logged")
       \/ UpdateEnds("decode_raised")
    /\ UNCHANGED <<rulog, nupd>>
    /\ UpdateFrame

\* Lines 103-104: iocs.xml is opened and written, or an IOError is caught.
UpdateWriteIocs ==
    /\ rupc = "write_iocs"
    /\ \/ rulog' = Append(rulog, "iocs.xml") /\ rupc' = "write_last" /\ rures' = rures
       \/ rulog' = rulog /\ UpdateEnds("write_logged")
    /\ nupd' = nupd
    /\ UpdateFrame

\* Lines 106-107: last_config.txt is opened and written, or an IOError is caught.
UpdateWriteLast ==
    /\ rupc = "write_last"
    /\ \/ rulog' = Append(rulog, "last_config.txt") /\ rupc' = "restart" /\ rures' = rures
       \/ rulog' = rulog /\ UpdateEnds("write_logged")
    /\ nupd' = nupd
    /\ UpdateFrame

\* Line 59: self.restart_iocs_callback_func() is called, and returns or
\* raises; before line 40 has run the attribute does not exist and the
\* AttributeError leaves _config_updated.
UpdateRestart ==
    /\ rupc = "restart"
    /\ \/ /\ rmcb
          /\ rulog' = Append(rulog, "restart")
          /\ \/ UpdateEnds("ok")
             \/ UpdateEnds("callback_raised")
       \/ /\ ~rmcb
          /\ rulog' = rulog
          /\ UpdateEnds("no_callback")
    /\ nupd' = nupd
    /\ UpdateFrame

RemoteNext ==
    \/ SetRemotePvPrefix
    \/ MonitorEnd
    \/ MonitorStart
    \/ AssignCallback
    \/ UpdateArrives
    \/ UpdateDecode
    \/ UpdateWriteIocs
    \/ UpdateWriteLast
    \/ UpdateRestart

RemoteSpec == RemoteInit /\ [][RemoteNext]_vars

\* ================================================================ claims
\* ----------------------------------------------------------------- C1
\* C1: the worker starts the tasks in exactly the order in which they were
\* appended (ids 1, 2, 3, ... with none skipped and none repeated), the queue
\* holds exactly the appended tasks not yet started, in append order, a task is
\* started only after the one before it has returned, and once the worker is
\* back at an empty queue every appended task has run exactly once.
ThmC1 ==
    /\ \A i \in 1..Len(execLog) : execLog[i] = i
    /\ Len(execLog) + Len(write_queue) = nextId
    /\ \A j \in 1..Len(write_queue) : write_queue[j].id = Len(execLog) + j
    /\ nDone <= Len(execLog)
    /\ Len(execLog) <= nDone + 1
    /\ Executing => (cur.id = Len(execLog) /\ nDone = Len(execLog) - 1)
    /\ (wpc = "test" /\ write_queue = <<>>) => (Len(execLog) = nextId /\ nDone = nextId)

\* Three tasks (the initialise task and two loads) have run to completion.
WitC1 == nDone = 3 /\ wpc = "test" /\ write_queue = <<>>

\* ----------------------------------------------------------------- C2
\* C2: every step of the CA thread (a step of write) that changes the active
\* configuration or the saved configurations is taken while the worker is
\* executing no queued task.
ClaimC2 ==
    [][((nwrites' # nwrites \/ capc' # capc) /\ (active' # active \/ disk' # disk))
          => ~Executing]_vars

\* ----------------------------------------------------------------- C3
\* C3: an enqueue is never made to wait for a task: whenever the CA thread has
\* reached the append of a load request while the worker is executing a task,
\* the append can be taken in that state.
ClaimC3 == (capc = "enq" /\ Executing) => ENABLED WriteLoadEnqueue

\* ----------------------------------------------------------------- C4
\* C4: when a save requested after a load begins executing, no load is still
\* queued or in execution.
ClaimC4 ==
    capc = "save" =>
        /\ cur.cmd # "load"
        /\ \A j \in 1..Len(write_queue) : write_queue[j].cmd # "load"

\* ----------------------------------------------------------------- C5
\* C5: while the worker executes a task the status is that task's label, and
\* while it executes none and the queue is empty the status is empty.
ClaimC5 ==
    /\ Executing => status = cur.label
    /\ (~Executing /\ write_queue = <<>>) => status = ""

\* ----------------------------------------------------------------- C6
\* C6: once an error has been raised inside a queued task the worker is still
\* alive, and whenever it is between tasks the status is empty.
ClaimC6 ==
    raised # {} => (wpc # "dead" /\ (~Executing => status = ""))

\* ----------------------------------------------------------------- C7
\* C7: a command that ends in an error leaves the active configuration as it
\* was before the command began: a command of the CA thread that replies
\* "Error", and a load task inside which an error is raised.
ClaimC7 ==
    [][/\ (capc \in {"post", "save"} /\ capc' = "idle" /\ reply' = "Error")
            => active' = caBefore
       /\ (cur.cmd = "load" /\ raised' # raised)
            => active' = taskBefore]_vars

\* ----------------------------------------------------------------- C8
\* C8: a load request that has been queued is answered "OK", and after a load
\* has failed the status is the label of the running task or empty.
ClaimC8 ==
    /\ (capc = "idle" /\ careq.kind \in LoadKinds) => reply = "OK"
    /\ (\E t \in raised : t > 1) => status \in {"", cur.label}

\* ----------------------------------------------------------------- C9
\* C9: a delete request for configurations (not components) that names the
\* active configuration ends with InUseError and leaves the catalogue, the
\* directories and version control as they were; a request that completes has
\* removed exactly the requested names from the catalogue of its kind.
ThmC9 ==
    /\ (~dreq.comps /\ activeName \in Range(dreq.names)) =>
           /\ dres = "InUseError"
           /\ dpc = "idle"
           /\ catalog = dBefore.catalog
           /\ dirs = dBefore.dirs
           /\ vcCalls = <<>>
    /\ (dpc = "idle" /\ dres = "ok") =>
           /\ catalog[dreq.comps] = dBefore.catalog[dreq.comps] \ Range(dreq.names)
           /\ catalog[~dreq.comps] = dBefore.catalog[~dreq.comps]

\* The scenario of the claim: delete({A}) was rejected with A active, and the
\* catalogue still holds A and B.
WitC9 ==
    /\ dres = "InUseError"
    /\ dreq.names = <<activeName>>
    /\ {"A", "B"} \subseteq catalog[FALSE]

\* The version-control calls of a completed delete of the names q.
RemovesThenCommit(q) == [i \in 1..Len(q) |-> <<"remove", q[i]>>] \o <<<<"commit", "">>>>

IsPrefix(p, q) == Len(p) <= Len(q) /\ \A i \in 1..Len(p) : p[i] = q[i]

Last(q) == q[Len(q)]

\* The last operation was a load of n that returned.
LoadedNow(n) == trail # <<>> /\ Last(trail) = [kind |-> "load", name |-> n] /\ svc.ok

ThmC12 ==
    \A n \in ConfigNames :
        (/\ Len(trail) = 3
         /\ trail[1].kind = "clear"
         /\ trail[2].kind = "save" /\ trail[2].name = n
         /\ LoadedNow(n)) =>
            /\ DOMAIN config.groups = {GRP_NONE}
            /\ config.groups[GRP_NONE] = {}
            /\ config.blocks = {}
            /\ config.iocs = {}

\* clear, save X, load X have run.
WitC12 ==
    /\ Len(trail) = 3
    /\ trail[1].kind = "clear"
    /\ trail[2].kind = "save" /\ trail[2].name = "X"
    /\ LoadedNow("X")
    /\ lastSaved["X"] = BlankConfiguration

\* ----------------------------------------------------------------- C13
\* C13: every configuration load_config can return for a directory as it stands
\* has the NONE group, and the configuration in memory, once there is one, has
\* the NONE group after every sequence of operations.
ThmC13 ==
    /\ \A n \in ConfigNames :
          files[n].exists => GRP_NONE \in DOMAIN LoadFiles(files[n], n).groups
    /\ config.made => GRP_NONE \in DOMAIN config.groups

\* A directory with no blocks file and a groups file that has no NONE element
\* has been loaded.
WitC13 ==
    /\ LoadedNow("X")
    /\ files["X"].groups.present
    /\ \A e \in files["X"].groups.doc : e[1] # GRP_NONE
    /\ ~files["X"].blocks.present

\* ----------------------------------------------------------------- C14
\* C14: the interval of the push loop is always the base value or the retry
\* value; after a failed push it is the retry value, whatever the number of
\* consecutive failures; after a successful push, and before any push, it is
\* the base value.
ThmC14 ==
    /\ push_interval \in {PUSH_BASE_INTERVAL, PUSH_RETRY_INTERVAL}
    /\ failRun >= 1 => push_interval = PUSH_RETRY_INTERVAL
    /\ lastPush = "failed" => (failRun >= 1 /\ push_interval = PUSH_RETRY_INTERVAL)
    /\ lastPush \in {"none", "ok"} => (failRun = 0 /\ push_interval = PUSH_BASE_INTERVAL)

\* One commit, two failed pushes and then a successful one: the loop sleeps
\* the base interval again.
WitC14 ==
    /\ ppc = "sleep"
    /\ ncommit = 1
    /\ npush = 3
    /\ nruns = 1
    /\ lastPush = "ok"
    /\ push_interval = PUSH_BASE_INTERVAL

\* ----------------------------------------------------------------- C15
\* C15: inside a run of consecutive failed pushes exactly one log line has been
\* emitted, at its first failure, and the first-failure flag is false; outside
\* such a run (at the start and after every successful push) the flag is true;
\* so there are as many log lines as runs.
ThmC15 ==
    /\ failRun = 0 => (first_failure /\ runLogs = 0)
    /\ failRun >= 1 => (~first_failure /\ runLogs = 1)
    /\ nlogs = nruns

\* A failure, a success, a new commit and a failure again: two runs, two lines.
WitC15 ==
    /\ failRun = 1
    /\ nruns = 2
    /\ nlogs = 2
    /\ npush = 3

\* ----------------------------------------------------------------- C16
\* C16: a step of commit() makes no push and moves the push loop nowhere; a
\* commit() that returns leaves the flag set; a commit() whose recording raises
\* leaves the flag as it was; and the flag goes from set to clear only in the
\* step in which a push returns successfully.
ThmC16 ==
    [][/\ (cpc' # cpc \/ ncommit' # ncommit) =>
              (npush' = npush /\ ppc' = ppc /\ lastPush' = lastPush)
       /\ (cpc = "flag" /\ cpc' = "idle") => push_required'
       /\ (ncommit' # ncommit /\ cres' = "raised") => push_required' = push_required
       /\ (push_required /\ ~push_required') => (ppc = "pushing" /\ lastPush' = "ok")]_vars

\* A commit returned, the push after it failed, and the flag is still set.
WitC16 ==
    /\ cres = "ok"
    /\ cpc = "idle"
    /\ lastPush = "failed"
    /\ push_required

\* ----------------------------------------------------------------- C17
\* C17: a commit() that has recorded its commit while the push loop is inside
\* remote.push() can go on to set the flag and return in that state.
ClaimC17 == (cpc = "flag" /\ ppc = "pushing") => ENABLED CommitSetFlag

\* ----------------------------------------------------------------- C18
\* C18: when start_version_control found no client, the save or delete that
\* called it issued no add, remove or commit and returned without an error; the
\* save has written all five files of the configuration and the delete has left
\* no directory.
ThmC18 ==
    (trail # <<>> /\ Last(trail).kind \in {"save", "delete"} /\ svc.start # "client") =>
        /\ svc.calls = <<>>
        /\ svc.ok
        /\ Last(trail).kind = "save" =>
              /\ files[Last(trail).name] = SaveFiles(NoDirectory, config)
              /\ \A f \in {"blocks", "groups", "iocs", "subconfigs", "meta"} :
                    files[Last(trail).name][f].present
        /\ Last(trail).kind = "delete" => ~files[Last(trail).name].exists

\* A save and then a delete of the same name, the delete in a directory that is
\* not under version control.
WitC18 ==
    /\ Len(trail) >= 2
    /\ trail[Len(trail) - 1].kind = "save"
    /\ Last(trail).kind = "delete"
    /\ Last(trail).name = trail[Len(trail) - 1].name
    /\ svc.start = "NotUnderVersionControl"

\* setup() raised NotUnderAllowedBranch.
Rejected == spc = "failed" /\ serr = "NotUnderAllowedBranch"

\* ----------------------------------------------------------------- C19
\* C19: once setup() has made the branch check, the branch was rejected exactly
\* when its lower-cased name contains "master", or starts with "nd" and differs
\* from the lower-cased host name; in particular master, MASTER and dev_master2
\* are rejected on every host, ndxfoo and NDXFOO are allowed on host NDXFOO and
\* rejected on host ndxbar, nd is rejected, and dev and and are allowed.
ThmC19 ==
    spc # "new" =>
        /\ Rejected <=>
              \/ Contains(Lower(branch), Str_master)
              \/ StartsWith(Lower(branch), Str_nd) /\ Lower(branch) # Lower(host)
        /\ branch \in {Str_master, Str_MASTER, Str_dev_master2} => Rejected
        /\ branch \in {Str_ndxfoo, Str_NDXFOO} => (Rejected <=> host # Str_NDXFOO)
        /\ branch \in {Str_dev, Str_and} => ~Rejected
        /\ branch = Str_nd => Rejected

\* The upper-case name of another instrument was rejected.
WitC19 ==
    /\ Rejected
    /\ branch = Str_NDXFOO
    /\ host = Str_ndxbar

\* ----------------------------------------------------------------- C20
\* C20: when setup() raised GitPullFailed the pull was attempted exactly once
\* and the push thread was not started; the pull is never attempted twice, and
\* the push thread runs only after a setup() that raised nothing.
ThmC20 ==
    /\ serr = "GitPullFailed" => (spc = "failed" /\ npull = 1 /\ ppc = "off")
    /\ npull <= 1
    /\ ppc # "off" => (spc = "done" /\ serr = "" /\ npull = 1)

\* The first pull failed and setup() raised GitPullFailed.
WitC20 ==
    /\ serr = "GitPullFailed"
    /\ spc = "failed"
    /\ npull = 1


\* ----------------------------------------------------------------- C21
\* C21: an add or remove call for a path that contains "rcptt_" performs no
\* operation on the git index, whether or not the path exists, and the index
\* never tracks such a path.
ClaimC21 ==
    /\ (ixcall.op # "none" /\ ShouldIgnore(ixcall.path)) => ixops = <<>>
    /\ \A p \in index : ~ShouldIgnore(p)


\* The load_config call of the handler raises for the name n.
LoadRaises(n) == ~(n \in WatchNames /\ wdisk[n].ver > 0 /\ wdisk[n].valid)

\* ----------------------------------------------------------------- C22
\* C22: the handling of an event whose path has fewer than two segments below
\* the watched root ends at once as rejected, with no load_config call made
\* and the catalogue as it was; the handling of an event with two or more
\* segments goes on to load_config, called once, for the first segment.
ThmC22 ==
    [][/\ (fpc = "check" /\ fpc' # "check" /\ Len(fev.segs) < 2)
            => (fpc' = "idle" /\ fres' = "rejected" /\ floaded' = <<>> /\ wcat' = wcat)
       /\ (fpc = "check" /\ fpc' # "check" /\ Len(fev.segs) >= 2)
            => (fpc' = "load" /\ fres' # "rejected")
       /\ (fpc = "load" /\ fpc' # "load") => floaded' = <<fev.segs[1]>>]_vars

\* An event for a file at the root has been rejected after an earlier event
\* inside X had its configuration loaded into the catalogue.
WitC22 == fres = "rejected" /\ fev.segs = <<<<"f">>>> /\ wcat[Name_X] = 2

\* ----------------------------------------------------------------- C23
\* C23: when the load_config call made for an event raises, one line is
\* logged, the handler ends normally (the delivery thread is ready for the
\* next event), the schema lock is free and the catalogue is as it was; the
\* schema lock is free whenever the handler is not inside the with block.
ThmC23 ==
    [][/\ (fpc = "load" /\ fpc' # "load" /\ LoadRaises(fev.segs[1]))
            => /\ flogged' = flogged + 1
               /\ fpc' = "idle"
               /\ fres' = "stale"
               /\ wcat' = wcat
       /\ fpc' # "load" => schema_lock' = "free"
       /\ fpc' # "dead"]_vars

\* After a reload of X that failed (one line logged) a later event for X was
\* handled and updated the catalogue.
WitC23 == flogged = 1 /\ fres = "updated" /\ fev.segs[1] = Name_X

\* ----------------------------------------------------------------- C24
\* C24: no write of a programmatic save, made between pause() and resume(),
\* is ever queued for the handler or loaded by it, and a write made outside
\* the program while no save is in progress is queued for the handler.
ThmC24 ==
    [][/\ \A i \in 1..Len(fq') : fq'[i].origin = "edit"
       /\ fpc' \in {"check", "load", "update"} => fev'.origin = "edit"
       /\ (nedit' # nedit /\ svpc = "idle") => Len(fq') = Len(fq) + 1]_vars

\* The five writes of a save took X from version 1 to 6, the catalogue holds 6
\* since resume(), an edit made after it produced version 7 and the handler is
\* loading X for it.
WitC24 ==
    /\ nsave = 1
    /\ wcat[Name_X] = 6
    /\ wdisk[Name_X].ver = 7
    /\ fpc = "load"
    /\ fev.segs[1] = Name_X


\* ----------------------------------------------------------------- C25
\* C25: no lock is held across a call into another component: the write lock
\* is free while the worker runs a queued task, the push lock is free while
\* remote.push() runs, and the schema lock is free while the catalogue's
\* load_config runs.
ClaimC25 ==
    /\ Executing => write_lock = "free"
    /\ ppc = "pushing" => push_lock = "free"
    /\ fpc = "load" => schema_lock = "free"


\* ----------------------------------------------------------------- C26
\* C26: an add IOCs or remove IOCs command that succeeds leaves running
\* exactly the IOCs that ran before, plus the IOCs it added to the active
\* configuration, less the IOCs it removed from it.
ClaimC26 ==
    [][(nhook' # nhook /\ hop'.ok /\ hop'.kind \in {"ADD_IOCS", "REMOVE_IOCS"})
          => running' = (running \cup (acs'.iocs \ acs.iocs)) \ (acs.iocs \ acs'.iocs)]_vars

\* ----------------------------------------------------------------- C27
\* C27: after every successful command that can change the blocks of the
\* active configuration (add, remove, edit blocks; add, remove components;
\* load; clear) the gateway's aliases are the blocks of the active configuration.
ClaimC27 ==
    (hop.ok /\ hop.kind \in {"ADD_BLOCKS", "REMOVE_BLOCKS", "EDIT_BLOCKS", "ADD_COMPS",
                              "REMOVE_COMPS", "load_config", "CLEAR_CONFIG"})
        => aliases = GetBlocks(acs)

\* The four refresh hooks of a load.
LoadHooks ==
    {"stop_iocs_and_start_config_iocs", "set_new_aliases", "update_archiver",
     "create_runcontrol_pvs"}

\* ----------------------------------------------------------------- C28
\* C28: a load whose load_config call returned has called all four refresh
\* hooks, and a load whose load_config call raised has called none of them.
ClaimC28 ==
    hop.kind = "load_config" =>
        IF hop.loaded /\ hop.ok
          THEN LoadHooks \subseteq Range(hop.calls)
          ELSE hop.loaded \/ LoadHooks \cap Range(hop.calls) = {}


\* ----------------------------------------------------------------- C29
\* C29: in every state, also while a queued task is being executed and before
\* the initialise task has run, a read of any active-state or catalogue value
\* returns a value: it does not fail (and it takes no lock).
ClaimC29 == \A reason \in ReadReasons : Read(reason).ok


\* ----------------------------------------------------------------- C30
\* C30: a load_config of a directory that exists returns a configuration,
\* whichever of the five files are missing, and in it every collection whose
\* file is missing is empty (the groups hold only NONE, the metadata only the
\* name asked for); a load_config of a directory that does not exist raises
\* and the configuration in memory stays as it was.
ThmC30 ==
    [][(nstore' # nstore /\ Last(trail').kind = "load") =>
          LET n == Last(trail').name
              dir == files[n]
          IN  IF dir.exists
                THEN /\ svc'.ok
                     /\ config'.made
                     /\ ~dir.blocks.present => config'.blocks = {}
                     /\ ~dir.groups.present => config'.groups = [g \in {GRP_NONE} |-> {}]
                     /\ ~dir.iocs.present => config'.iocs = {}
                     /\ ~dir.subconfigs.present => config'.subconfigs = {}
                     /\ ~dir.meta.present => config'.meta = [name |-> n]
                ELSE /\ ~svc'.ok
                     /\ config' = config]_vars

\* A directory X that exists with none of its five files has been loaded.
WitC30 ==
    /\ LoadedNow("X")
    /\ files["X"].exists
    /\ ~files["X"].blocks.present /\ ~files["X"].groups.present /\ ~files["X"].iocs.present
    /\ ~files["X"].subconfigs.present /\ ~files["X"].meta.present
    /\ config.meta = [name |-> "X"]


\* What C31 says of every save, whether or not version control was started:
\* the log is the file writes followed by the version-control calls; a call is
\* made only outside test mode and after all five writes; the calls are an
\* add and then a commit, each at most once.
SaveCallsInOrder ==
    /\ sclog = Writes(sclog) \o VcCallsOf(sclog)
    /\ IsPrefix(Writes(sclog), SaveOrder)
    /\ IsPrefix(VcCallsOf(sclog), <<"add", "commit">>)
    /\ VcCallsOf(sclog) # <<>> => (~sctest /\ Writes(sclog) = SaveOrder)
    /\ (scpc = "raised" /\ Writes(sclog) # SaveOrder) => VcCallsOf(sclog) = <<>>

\* ----------------------------------------------------------------- C31
\* C31 as stated: the version-control calls come after the five writes, the
\* add before the commit, none in test mode, none when a write raised, and
\* every save outside test mode that returns has recorded exactly one commit.
ClaimC31 ==
    /\ SaveCallsInOrder
    /\ (scpc = "done" /\ ~sctest) => VcCallsOf(sclog) = <<"add", "commit">>

\* C31 as amended: as stated, but a save outside test mode that returns has
\* recorded exactly one commit when start_version_control returned a client,
\* and has made no version-control call when it returned none.
ThmC31 ==
    /\ SaveCallsInOrder
    /\ (scpc = "done" /\ ~sctest) =>
           VcCallsOf(sclog) = IF scstart = "client" THEN <<"add", "commit">> ELSE <<>>
    /\ (scpc = "done" /\ sctest) => scstart = "none"
    /\ sccommits <= nsc

\* A second save outside test mode has returned after its add and its commit;
\* it is the only save that recorded a commit.
WitC31 ==
    /\ nsc = 2
    /\ scpc = "done"
    /\ ~sctest
    /\ sclog = SaveOrder \o <<"add", "commit">>
    /\ sccommits = 1


\* ----------------------------------------------------------------- C32
\* C32: remote.push() is called only from the test of a set flag; the step the
\* push thread takes from the test of a clear flag leaves the flag, the
\* interval and first_failure as they are, calls no push and goes to the sleep.
ThmC32 ==
    [][/\ npush' # npush => (ppc = "test" /\ push_required)
       /\ (ppc = "test" /\ ~push_required /\ ppc' # ppc) =>
             /\ ppc' = "sleep"
             /\ push_required' = push_required
             /\ push_interval' = push_interval
             /\ first_failure' = first_failure
             /\ npush' = npush]_vars

\* The push thread sleeps after an iteration that found the flag clear: no
\* push was ever made.
WitC32 == ppc = "sleep" /\ npush = 0 /\ ~push_required /\ push_interval = PUSH_BASE_INTERVAL


\* ----------------------------------------------------------------- C33
\* C33: when the initialise task returns, the active configuration is the one
\* lastcfg names if restoring it raised nothing, and the blank one otherwise
\* (no name persisted, or a raise that the handler of line 204 answered with
\* clear_config); it is a constructed object in both cases.
ClaimC33 ==
    [][(cur.cmd = "init" /\ wpc = "finish" /\ wpc' = "test") =>
          /\ active'.made
          /\ active' = IF lastcfg # "" /\ cur.id \notin raised
                         THEN Loaded(FALSE, lastcfg)
                         ELSE BlankConfig]_vars


\* ----------------------------------------------------------------- C34
\* The steps of setup() that have run, in terms of what each leaves behind.
UnlockRan == lockres # "none"

PullRan == npull > 0

PushLoopStarted == ppc # "off"

\* C34: setup runs branch check, _unlock, pull and the start of the push
\* thread in this order, each only after the earlier ones returned: a rejected
\* branch leaves the lock file alone, pulls nothing and starts no thread; a
\* pull is made only after _unlock ran, at most once, and the thread is started
\* only after the pull returned, by the one step that ends setup.
ThmC34 ==
    /\ [](/\ ~BranchAllowed(branch, host) =>
                 (~UnlockRan /\ ~PullRan /\ ~PushLoopStarted /\ spc \in {"new", "failed"})
          /\ UnlockRan => spc \in {"pull", "start", "done", "failed"}
          /\ PullRan => (UnlockRan /\ npull = 1 /\ spc \in {"start", "done", "failed"})
          /\ PushLoopStarted => (PullRan /\ serr = "" /\ spc = "done")
          /\ spc = "failed" => (serr # "" /\ ~PushLoopStarted))
    /\ [][/\ lockfile' # lockfile => (spc = "unlock" /\ spc' = "pull")
          /\ (~PushLoopStarted /\ PushLoopStarted') => (spc = "start" /\ spc' = "done")
          /\ spc \in {"done", "failed"} => spc' = spc]_vars

\* setup() on a rejected branch has raised with the lock file still there.
WitC34 ==
    /\ spc = "failed"
    /\ serr = "NotUnderAllowedBranch"
    /\ lockfile
    /\ ~UnlockRan

\* ----------------------------------------------------------------- C35
\* C35: the step of _unlock removes the lock file when it exists and can be
\* removed, does nothing when it does not exist, and on a failed removal logs
\* and leaves the file; in all three cases setup goes on to the pull.
ThmC35 ==
    [][(spc = "unlock" /\ spc' # spc) =>
          /\ spc' = "pull"
          /\ serr' = serr
          /\ ~lockfile => (~lockfile' /\ lockres' = "absent")
          /\ lockfile => ((~lockfile' /\ lockres' = "removed") \/
                          (lockfile' /\ lockres' = "failed"))]_vars

\* The removal failed and was logged, and the pull was made all the same.
WitC35 ==
    /\ lockres = "failed"
    /\ lockfile
    /\ PullRan
    /\ spc = "done"

\* ----------------------------------------------------------------- C36
\* C36: whenever _push_required is False and no commit() call is between its
\* repo.index.commit and the end of its with-block, every commit recorded has
\* been carried by a push that returned.
ThmC36 == (~push_required /\ cpc = "idle") => unpushed = 0

\* Every commit() call allowed has been made, two pushes or more were called,
\* the last one returned and the flag is clear: nothing is left to push.
WitC36 ==
    /\ ~push_required
    /\ cpc = "idle"
    /\ ncommit = MaxCommits
    /\ npush >= 2
    /\ lastPush = "ok"
    /\ unpushed = 0

\* ----------------------------------------------------------------- C37
\* C37: after a push attempt, whatever its outcome, the push thread goes on to
\* its sleep and so to the next iteration (on which eventual clearing of the
\* flag rests).
ClaimC37 == [][(ppc = "pushing" /\ ppc' # ppc) => ppc' = "sleep"]_vars


\* ----------------------------------------------------------------- C38
\* C38: when the initialise task has returned, on the path through the except
\* clause as on the others, the gateway's aliases are the blocks of the active
\* configuration.
ClaimC38 == hop.kind = LabelInit => aliases = GetBlocks(acs)


\* ----------------------------------------------------------------- C39
\* The outcomes of an update that failed in decoding or in writing.
FailedOutcomes == {"decode_logged", "decode_raised", "write_logged"}

\* C39: an update writes iocs.xml, then last_config.txt, then calls the
\* restart callback, each only after the one before succeeded; an update that
\* failed has not called it; no step of an update touches the monitor, so a
\* live monitor goes on delivering; a new monitor is started only when none is
\* live, and at most one is live.
ThmC39 ==
    /\ [](/\ IsPrefix(rulog, UpdateOrder)
          /\ (rupc = "idle" /\ rures # <<>> /\ Last(rures) \in FailedOutcomes)
                => "restart" \notin Range(rulog)
          /\ rupc = "restart" => rulog = <<"iocs.xml", "last_config.txt">>
          /\ Cardinality(rmlive) <= 1
          /\ rmlive \subseteq {rmmon})
    /\ [][/\ (rupc' # rupc \/ rulog' # rulog) => UNCHANGED <<rmlive, rmmon>>
          /\ (rupc = "idle" /\ rupc' # "idle") => rmlive # {}
          /\ ~(rmlive' \subseteq rmlive) => rmlive = {}]_vars

\* The first update failed in decoding, the second one wrote both files and
\* called the callback, after the prefix had been changed.
WitC39 ==
    /\ rures = <<"decode_logged", "ok">>
    /\ rulog = UpdateOrder
    /\ nset >= 2
    /\ rmlive = {rmmon}

====
